---- MODULE Spec2Model ----
(***************************************************************************)
(* dynamic-ui: the SSE event protocol between the AGUI / A2UI stream       *)
(* sessions (server) and the chat clients (stream reader + accumulator),   *)
(* and the recursive A2UI specification renderer.                          *)
(*                                                                         *)
(* Text (a JavaScript string) is a sequence of symbols.  A symbol is one   *)
(* character of punctuation ({ } [ ] : , " \ newline), one JSON escape     *)
(* (\" \\ \n), one JSON literal (null, true, false, a number) or one       *)
(* atomic word of string content.  Concatenation is \o, and a chunk of a   *)
(* response stream may be cut between any two symbols.                     *)
(*                                                                         *)
(* A JavaScript value is a tagged record [k, v]:                           *)
(*   undef, null, str (v: text), num, bool, arr (v: sequence of values),   *)
(*   obj (v: sequence of [key, val] in property order), err (an Error      *)
(*   object, v: its message text).                                         *)
(***************************************************************************)
EXTENDS Integers, Sequences, FiniteSets, TLC

VARIABLES
  sess,       \* server: one stream session per request (handler position, events written, response)
  uuid,       \* number of uuidv4() / crypto.randomUUID() values generated so far
  messages,   \* client: the conversation (React state `messages`)
  input,      \* client: the text input (React state `input`)
  isLoading,  \* client: the loading flag (React state `isLoading`)
  app,        \* client: which of the two front ends this is ("agui" or "a2ui")
  runs,       \* client: one record per sendMessage invocation (its closure variables and position)
  splits,     \* network: number of chunks so far that ended inside a frame line
  spec,       \* renderer: the specification handed to A2UIRenderer
  view        \* renderer: what UIComponent returned for it

vars == <<sess, uuid, messages, input, isLoading, app, runs, splits, spec, view>>
serverVars == <<sess>>
clientVars == <<messages, input, isLoading, app, runs, splits>>
renderVars == <<spec, view>>

----------------------------------------------------------------------------
(* JavaScript values *)

JUndef == [k |-> "undef", v |-> <<>>]
JNull == [k |-> "null", v |-> <<>>]
JStr(s) == [k |-> "str", v |-> s]
Str(w) == [k |-> "str", v |-> <<w>>]
JNum(n) == [k |-> "num", v |-> <<n>>]
JBool(b) == [k |-> "bool", v |-> <<b>>]
JArr(a) == [k |-> "arr", v |-> a]
JObj(m) == [k |-> "obj", v |-> m]
JErr(msg) == [k |-> "err", v |-> msg]
JFn(name) == [k |-> "fn", v |-> <<name>>]
P(key, val) == [key |-> <<key>>, val |-> val]

\* !x
Falsy(x) ==
  \/ x.k \in {"undef", "null"}
  \/ x.k = "str" /\ x.v = <<>>
  \/ x.k = "num" /\ x.v[1] = 0
  \/ x.k = "bool" /\ ~x.v[1]
Truthy(x) == ~Falsy(x)

\* a || b
Or(a, b) == IF Truthy(a) THEN a ELSE b

\* typeof x
TypeOf(x) ==
  CASE x.k = "undef" -> "undefined"
    [] x.k = "str" -> "string"
    [] x.k = "num" -> "number"
    [] x.k = "bool" -> "boolean"
    [] OTHER -> "object"

\* Reading a property of undefined or null throws a TypeError.
CanRead(x) == x.k \notin {"undef", "null"}

HasOwn(o, key) == o.k = "obj" /\ \E i \in 1..Len(o.v) : o.v[i].key = <<key>>

\* o.key (o is not undefined or null); only own data properties are modelled
Get(o, key) ==
  IF HasOwn(o, key)
  THEN o.v[CHOOSE i \in 1..Len(o.v) : o.v[i].key = <<key>>].val
  ELSE JUndef

\* a[i] for an array and a 0-based index
At(a, i) == IF a.k = "arr" /\ i >= 0 /\ i < Len(a.v) THEN a.v[i + 1] ELSE JUndef

\* Assignment of one property: an existing key keeps its place, a new key is appended.
SetKey(m, key, val) ==
  IF \E i \in 1..Len(m) : m[i].key = key
  THEN [i \in 1..Len(m) |-> IF m[i].key = key THEN [key |-> key, val |-> val] ELSE m[i]]
  ELSE Append(m, [key |-> key, val |-> val])

RECURSIVE SetAll(_, _)
SetAll(m, entries) ==
  IF entries = <<>> THEN m
  ELSE SetAll(SetKey(m, Head(entries).key, Head(entries).val), Tail(entries))

\* The own enumerable properties an object spread `...x` copies.
SpreadEntries(x) ==
  CASE x.k = "obj" -> x.v
    [] x.k = "arr" -> [i \in 1..Len(x.v) |-> [key |-> <<ToString(i - 1)>>, val |-> x.v[i]]]
    [] x.k = "str" -> [i \in 1..Len(x.v) |-> [key |-> <<ToString(i - 1)>>, val |-> Str(x.v[i])]]
    [] OTHER -> <<>>

----------------------------------------------------------------------------
(* JSON.stringify and JSON.parse over symbols *)

Q == "\""
BS == "\\"
NL == "\n"
EscQ == "\\\""
EscBS == "\\\\"
EscNL == "\\n"

MaxNum == 6
NumSyms == {ToString(n) : n \in 0..MaxNum}
NumOf(sym) == CHOOSE n \in 0..MaxNum : ToString(n) = sym

\* a symbol written as it is
EscapeSymNone(c) == c

EscapeSym(c) ==
  CASE c = Q -> EscQ
    [] c = BS -> EscBS
    [] c = NL -> EscNL
    [] OTHER -> c

UnescapeSym(c) ==
  CASE c = EscQ -> Q
    [] c = EscBS -> BS
    [] c = EscNL -> NL
    [] OTHER -> c

Quote(s) == <<Q>> \o [i \in 1..Len(s) |-> EscapeSym(s[i])] \o <<Q>>

RECURSIVE Stringify(_), StringifyMembers(_, _), StringifyElements(_, _)
\* JSON.stringify(x) for a value that is not undefined
Stringify(x) ==
  CASE x.k = "null" -> <<"null">>
    [] x.k = "str" -> Quote(x.v)
    [] x.k = "num" -> <<ToString(x.v[1])>>
    [] x.k = "bool" -> IF x.v[1] THEN <<"true">> ELSE <<"false">>
    [] x.k = "arr" -> <<"[">> \o StringifyElements(x.v, TRUE) \o <<"]">>
    [] x.k = "obj" -> <<"{">> \o StringifyMembers(x.v, TRUE) \o <<"}">>
    [] x.k = "err" -> <<"{", "}">>
    [] OTHER -> <<"null">>

\* members whose value is undefined are left out
StringifyMembers(m, first) ==
  IF m = <<>> THEN <<>>
  ELSE IF Head(m).val.k = "undef" THEN StringifyMembers(Tail(m), first)
  ELSE (IF first THEN <<>> ELSE <<",">>)
         \o Quote(Head(m).key) \o <<":">> \o Stringify(Head(m).val)
         \o StringifyMembers(Tail(m), FALSE)

StringifyElements(a, first) ==
  IF a = <<>> THEN <<>>
  ELSE (IF first THEN <<>> ELSE <<",">>)
         \o Stringify(Head(a))
         \o StringifyElements(Tail(a), FALSE)

\* F(x), with x evaluated once
With(x, F(_)) == CHOOSE r \in {F(y) : y \in {x}} : TRUE

ParseFail == [ok |-> FALSE, val |-> JUndef, rest |-> <<>>]
ParseOk(val, rest) == [ok |-> TRUE, val |-> val, rest |-> rest]

RECURSIVE ParseString(_, _), ParseValue(_), ParseMembers(_, _), ParseElements(_, _)

\* after the opening quote
ParseString(t, acc) ==
  IF t = <<>> THEN ParseFail
  ELSE LET c == Head(t) IN
    IF c = Q THEN ParseOk(JStr(acc), Tail(t))
    ELSE IF c \in {NL, BS} THEN ParseFail
    ELSE ParseString(Tail(t), Append(acc, UnescapeSym(c)))

ParseValue(t) ==
  IF t = <<>> THEN ParseFail
  ELSE LET c == Head(t) IN
    CASE c = Q -> ParseString(Tail(t), <<>>)
      [] c = "null" -> ParseOk(JNull, Tail(t))
      [] c = "true" -> ParseOk(JBool(TRUE), Tail(t))
      [] c = "false" -> ParseOk(JBool(FALSE), Tail(t))
      [] c \in NumSyms -> ParseOk(JNum(NumOf(c)), Tail(t))
      [] c = "[" ->
           IF Len(t) >= 2 /\ t[2] = "]" THEN ParseOk(JArr(<<>>), SubSeq(t, 3, Len(t)))
           ELSE ParseElements(Tail(t), <<>>)
      [] c = "{" ->
           IF Len(t) >= 2 /\ t[2] = "}" THEN ParseOk(JObj(<<>>), SubSeq(t, 3, Len(t)))
           ELSE ParseMembers(Tail(t), <<>>)
      [] OTHER -> ParseFail

\* after "[" or ",": one element, then "," or "]"
ParseElements(t, acc) ==
  LET Rest(e) ==
        IF ~e.ok \/ e.rest = <<>> THEN ParseFail
        ELSE IF Head(e.rest) = "]" THEN ParseOk(JArr(Append(acc, e.val)), Tail(e.rest))
        ELSE IF Head(e.rest) = "," THEN ParseElements(Tail(e.rest), Append(acc, e.val))
        ELSE ParseFail
  IN With(ParseValue(t), Rest)

\* after "{" or ",": "key" : value, then "," or "}"
ParseMembers(t, acc) ==
  LET Member(key, e) ==
        IF ~e.ok \/ e.rest = <<>> THEN ParseFail
        ELSE IF Head(e.rest) = "}"
             THEN ParseOk(JObj(SetKey(acc, key.val.v, e.val)), Tail(e.rest))
        ELSE IF Head(e.rest) = ","
             THEN ParseMembers(Tail(e.rest), SetKey(acc, key.val.v, e.val))
        ELSE ParseFail
      Value(key) ==
        IF ~key.ok \/ key.rest = <<>> \/ Head(key.rest) # ":" THEN ParseFail
        ELSE LET Rest(e) == Member(key, e) IN With(ParseValue(Tail(key.rest)), Rest)
  IN IF t = <<>> \/ Head(t) # Q THEN ParseFail
     ELSE With(ParseString(Tail(t), <<>>), Value)

\* JSON.parse(text): ok = FALSE stands for the SyntaxError it throws
JsonParse(t) ==
  LET Whole(r) ==
        IF r.ok /\ r.rest = <<>> THEN [ok |-> TRUE, val |-> r.val]
        ELSE [ok |-> FALSE, val |-> JUndef]
  IN With(ParseValue(t), Whole)

\* JSON.parse(x) of a JavaScript value: a non-string is converted to text first
\* (undefined gives the text `undefined`, which is no JSON)
JsonParseValue(x) ==
  IF x.k = "str" THEN JsonParse(x.v)
  ELSE IF x.k \in {"null", "num", "bool"} THEN JsonParse(Stringify(x))
  ELSE [ok |-> FALSE, val |-> JUndef]

----------------------------------------------------------------------------
(* Text helpers of the stream reader *)

\* text.split('\n'): the pieces between the line feeds, in order
SplitLines(t) ==
  LET feeds == {i \in 1..Len(t) : t[i] = NL}
      Feed(k) == IF k = 0 THEN 0
                 ELSE IF k > Cardinality(feeds) THEN Len(t) + 1
                 ELSE CHOOSE i \in feeds : Cardinality({j \in feeds : j < i}) = k - 1
  IN [k \in 1..(Cardinality(feeds) + 1) |-> SubSeq(t, Feed(k - 1) + 1, Feed(k) - 1)]

DataPrefix == <<"d", "a", "t", "a", ":", " ">>

\* line.startsWith(prefix)
StartsWith(line, prefix) ==
  Len(line) >= Len(prefix) /\ SubSeq(line, 1, Len(prefix)) = prefix

\* line.slice(n)
Slice(line, n) == SubSeq(line, n + 1, Len(line))

----------------------------------------------------------------------------
(* Event vocabulary and the codec *)

RUN_STARTED == "run.started"
RUN_FINISHED == "run.finished"
RUN_ERROR == "run.error"
TEXT_MESSAGE_START == "text_message.start"
TEXT_MESSAGE_CONTENT == "text_message.content"
TEXT_MESSAGE_END == "text_message.end"
TOOL_CALL_START == "tool_call.start"
TOOL_CALL_ARGS == "tool_call.args"
TOOL_CALL_END == "tool_call.end"
UI_SPEC == "ui.spec"

\* encodeSSE(event) = `data: ${JSON.stringify(event)}\n\n`
EncodeSSE(event) == DataPrefix \o Stringify(event) \o <<NL, NL>>

TypeOfEvent(e) == Get(e, "type")
IsType(e, t) == Get(e, "type") = Str(t)

\* uuidv4(): the n-th value generated
Uuid(n) == Str("uuid-" \o ToString(n))

----------------------------------------------------------------------------
(* Stream session (server): POST /api/agui and handleA2UIRequest *)

MaxRuns == 1
Sessions == 1..MaxRuns
\* messages one conversation of a front end sends, each to a session of its own
MaxSends == 2
AppSessions == 1..MaxSends
AllSessions == Sessions \cup AppSessions
Handlers == {"agui", "a2ui"}

IdleSession ==
  [handler |-> "none", pc |-> "idle", body |-> JUndef,
   threadId |-> JUndef, runId |-> JUndef,
   sent |-> JUndef, settled |-> "none", response |-> JUndef, thrown |-> JUndef,
   assistantMessage |-> JUndef, messageId |-> JUndef,
   i |-> 0, toolCallId |-> JUndef,
   out |-> <<>>, wire |-> <<>>, ended |-> 0]

\* res.write(encodeSSE(event))
Write(ss, event) ==
  [ss EXCEPT !.out = Append(@, event), !.wire = @ \o EncodeSSE(event)]

\* an exception inside the try block transfers control to the catch block
Throw(ss, err) == [ss EXCEPT !.thrown = err, !.pc = "catch"]

TypeError == JErr(<<"TypeError">>)
SyntaxError == JErr(<<"SyntaxError">>)

\* the handlers that announce tool calls: the typed /api/agui and the plain
\* JavaScript /api/agent, the same statements but for the catch block
Tooled(h) == h \in {"agui", "agent"}

SystemMessage(h) ==
  JObj(<<P("role", Str("system")),
         P("content", Str(IF Tooled(h) THEN "agui-system-prompt" ELSE "a2ui-system-prompt"))>>)

\* a handler that takes one generated id for both the thread and the run
AcceptSameIds(s, h, body) ==
  /\ sess[s].pc = "idle"
  /\ LET threadId == Get(body, "threadId")
         runId == Get(body, "runId")
         currentThreadId == IF Falsy(threadId) THEN Uuid(uuid + 1) ELSE threadId
         currentRunId == IF Falsy(runId) THEN Uuid(uuid + 1) ELSE runId
         ss == [sess[s] EXCEPT !.handler = h, !.body = body,
                               !.threadId = currentThreadId, !.runId = currentRunId,
                               !.pc = "prepare"]
     IN /\ sess' = [sess EXCEPT ![s] =
                      Write(ss, JObj(<<P("type", Str(RUN_STARTED)),
                                       P("threadId", currentThreadId),
                                       P("runId", currentRunId)>>))]
        /\ uuid' = uuid + 1

\* Entry of the handler up to the first write: destructure the request, choose
\* the ids (a falsy id is replaced by a fresh uuid), send RUN_STARTED.
Accept(s, h, body) ==
  /\ sess[s].pc = "idle"
  /\ LET threadId == Get(body, "threadId")
         runId == Get(body, "runId")
         n1 == IF Falsy(threadId) THEN 1 ELSE 0
         n2 == IF Falsy(runId) THEN 1 ELSE 0
         currentThreadId == IF Falsy(threadId) THEN Uuid(uuid + 1) ELSE threadId
         currentRunId == IF Falsy(runId) THEN Uuid(uuid + n1 + 1) ELSE runId
         ss == [sess[s] EXCEPT !.handler = h, !.body = body,
                               !.threadId = currentThreadId, !.runId = currentRunId,
                               !.pc = "prepare"]
     IN /\ sess' = [sess EXCEPT ![s] =
                      Write(ss, JObj(<<P("type", Str(RUN_STARTED)),
                                       P("threadId", currentThreadId),
                                       P("runId", currentRunId)>>))]
        /\ uuid' = uuid + n1 + n2

HandleRequest(s, h, body) == Accept(s, h, body) /\ UNCHANGED <<clientVars, renderVars>>

\* messages.filter((msg) => msg.role !== 'tool') throws on a value with no
\* filter method and on an element that is undefined or null.
FilterThrows(msgs) ==
  \/ msgs.k # "arr"
  \/ \E i \in 1..Len(msgs.v) : ~CanRead(msgs.v[i])

NotToolRole(msg) == Get(msg, "role") # Str("tool")
OpenAIMessages(msgs) == SelectSeq(msgs.v, NotToolRole)

\* From RUN_STARTED to the provider call: (AGUI) read the last message, filter
\* the history, build the message list for the provider.
Prepare(s) ==
  /\ sess[s].pc = "prepare"
  /\ LET ss == sess[s]
         msgs == Get(ss.body, "messages")
     IN sess' = [sess EXCEPT ![s] =
          IF FilterThrows(msgs) THEN Throw(ss, TypeError)
          ELSE [ss EXCEPT !.sent = JArr(<<SystemMessage(ss.handler)>> \o OpenAIMessages(msgs)),
                          !.pc = "await"]]
  /\ UNCHANGED <<uuid, clientVars, renderVars>>

\* await openai.chat.completions.create(...): the provider resolves with a
\* response or rejects with a thrown value.
ProviderCall(s, pool) ==
  /\ sess[s].pc = "await"
  /\ \E o \in pool :
       sess' = [sess EXCEPT ![s] =
          IF o.rejects THEN Throw([sess[s] EXCEPT !.settled = "rejected"], o.val)
          ELSE [sess[s] EXCEPT !.settled = "resolved", !.response = o.val, !.pc = "message"]]
  /\ UNCHANGED <<uuid, clientVars, renderVars>>

\* const assistantMessage = response.choices[0].message; const messageId = uuidv4()
TakeMessage(s) ==
  /\ sess[s].pc = "message"
  /\ LET ss == sess[s]
         choices == Get(ss.response, "choices")
         first == At(choices, 0)
     IN IF ~CanRead(ss.response) \/ ~CanRead(choices) \/ ~CanRead(first)
        THEN /\ sess' = [sess EXCEPT ![s] = Throw(ss, TypeError)]
             /\ UNCHANGED uuid
        ELSE /\ sess' = [sess EXCEPT ![s] =
                  [ss EXCEPT !.assistantMessage = Get(first, "message"),
                             !.messageId = Uuid(uuid + 1),
                             !.pc = "textStart"]]
             /\ uuid' = uuid + 1
  /\ UNCHANGED <<clientVars, renderVars>>

\* Send TEXT_MESSAGE_START
WriteTextStart(s) ==
  /\ sess[s].pc = "textStart"
  /\ LET ss == sess[s] IN
       sess' = [sess EXCEPT ![s] =
          [Write(ss, JObj(<<P("type", Str(TEXT_MESSAGE_START)),
                            P("messageId", ss.messageId),
                            P("role", Str("assistant"))>>))
             EXCEPT !.pc = IF Tooled(ss.handler) THEN "tools" ELSE "content"]]
  /\ UNCHANGED <<uuid, clientVars, renderVars>>

\* if (assistantMessage.tool_calls && assistantMessage.tool_calls.length > 0)
\* (AGUI); reading tool_calls of an undefined message throws.
EnterToolLoop(s) ==
  /\ sess[s].pc = "tools"
  /\ LET ss == sess[s]
         calls == Get(ss.assistantMessage, "tool_calls")
     IN sess' = [sess EXCEPT ![s] =
          IF ~CanRead(ss.assistantMessage) THEN Throw(ss, TypeError)
          ELSE IF calls.k = "arr" /\ Len(calls.v) > 0
               THEN [ss EXCEPT !.i = 1, !.pc = "toolStart"]
               ELSE [ss EXCEPT !.pc = "content"]]
  /\ UNCHANGED <<uuid, clientVars, renderVars>>

CurrentToolCall(ss) == Get(ss.assistantMessage, "tool_calls").v[ss.i]

\* a tool call that names itself as its parent
ToolCallStartOrphan(s) ==
  /\ sess[s].pc = "toolStart"
  /\ LET ss == sess[s]
         fn == Get(CurrentToolCall(ss), "function")
         id == Uuid(uuid + 1)
     IN sess' = [sess EXCEPT ![s] =
          IF ~CanRead(CurrentToolCall(ss)) \/ ~CanRead(fn)
          THEN Throw([ss EXCEPT !.toolCallId = id], TypeError)
          ELSE [Write(ss, JObj(<<P("type", Str(TOOL_CALL_START)),
                                 P("toolCallId", id),
                                 P("toolCallName", Get(fn, "name")),
                                 P("parentMessageId", id)>>))
                  EXCEPT !.toolCallId = id, !.pc = "toolArgs"]]
  /\ uuid' = uuid + 1
  /\ UNCHANGED <<clientVars, renderVars>>

\* const toolCallId = uuidv4(); send TOOL_CALL_START with toolCall.function.name
ToolCallStart(s) ==
  /\ sess[s].pc = "toolStart"
  /\ LET ss == sess[s]
         toolCall == CurrentToolCall(ss)
         fn == Get(toolCall, "function")
         id == Uuid(uuid + 1)
     IN sess' = [sess EXCEPT ![s] =
          IF ~CanRead(toolCall) \/ ~CanRead(fn)
          THEN Throw([ss EXCEPT !.toolCallId = id], TypeError)
          ELSE [Write(ss, JObj(<<P("type", Str(TOOL_CALL_START)),
                                 P("toolCallId", id),
                                 P("toolCallName", Get(fn, "name")),
                                 P("parentMessageId", ss.messageId)>>))
                  EXCEPT !.toolCallId = id, !.pc = "toolArgs"]]
  /\ uuid' = uuid + 1
  /\ UNCHANGED <<clientVars, renderVars>>

\* arguments sent under an id no tool call was started with
ToolCallArgsUnstarted(s) ==
  /\ sess[s].pc = "toolArgs"
  /\ LET ss == sess[s]
         fn == Get(CurrentToolCall(ss), "function")
     IN sess' = [sess EXCEPT ![s] =
          [Write(ss, JObj(<<P("type", Str(TOOL_CALL_ARGS)),
                            P("toolCallId", ss.messageId),
                            P("delta", Get(fn, "arguments"))>>))
             EXCEPT !.pc = "toolEnd"]]
  /\ UNCHANGED <<uuid, clientVars, renderVars>>

\* send TOOL_CALL_ARGS with toolCall.function.arguments as one delta
ToolCallArgs(s) ==
  /\ sess[s].pc = "toolArgs"
  /\ LET ss == sess[s]
         fn == Get(CurrentToolCall(ss), "function")
     IN sess' = [sess EXCEPT ![s] =
          [Write(ss, JObj(<<P("type", Str(TOOL_CALL_ARGS)),
                            P("toolCallId", ss.toolCallId),
                            P("delta", Get(fn, "arguments"))>>))
             EXCEPT !.pc = "toolEnd"]]
  /\ UNCHANGED <<uuid, clientVars, renderVars>>

\* send TOOL_CALL_END; next tool call, or leave the loop
ToolCallEnd(s) ==
  /\ sess[s].pc = "toolEnd"
  /\ LET ss == sess[s]
         n == Len(Get(ss.assistantMessage, "tool_calls").v)
     IN sess' = [sess EXCEPT ![s] =
          [Write(ss, JObj(<<P("type", Str(TOOL_CALL_END)),
                            P("toolCallId", ss.toolCallId)>>))
             EXCEPT !.i = ss.i + 1,
                    !.pc = IF ss.i < n THEN "toolStart" ELSE "content"]]
  /\ UNCHANGED <<uuid, clientVars, renderVars>>

\* an empty default text
DefaultTextEmpty == JStr(<<>>)

DefaultText == JStr(<<"Here's what I generated for you:">>)

\* if (assistantMessage.content) send it as one TEXT_MESSAGE_CONTENT; the AGUI
\* handler sends a default text otherwise, the A2UI handler nothing.
WriteTextContent(s) ==
  /\ sess[s].pc = "content"
  /\ LET ss == sess[s]
         content == Get(ss.assistantMessage, "content")
         ev(delta) == JObj(<<P("type", Str(TEXT_MESSAGE_CONTENT)),
                             P("messageId", ss.messageId),
                             P("delta", delta)>>)
     IN sess' = [sess EXCEPT ![s] =
          IF ~CanRead(ss.assistantMessage) THEN Throw(ss, TypeError)
          ELSE IF Truthy(content) THEN [Write(ss, ev(content)) EXCEPT !.pc = "textEnd"]
          ELSE IF Tooled(ss.handler) THEN [Write(ss, ev(DefaultText)) EXCEPT !.pc = "textEnd"]
          ELSE [ss EXCEPT !.pc = "textEnd"]]
  /\ UNCHANGED <<uuid, clientVars, renderVars>>

\* Send TEXT_MESSAGE_END
WriteTextEnd(s) ==
  /\ sess[s].pc = "textEnd"
  /\ LET ss == sess[s] IN
       sess' = [sess EXCEPT ![s] =
          [Write(ss, JObj(<<P("type", Str(TEXT_MESSAGE_END)),
                            P("messageId", ss.messageId)>>))
             EXCEPT !.pc = IF Tooled(ss.handler) THEN "finish" ELSE "specs"]]
  /\ UNCHANGED <<uuid, clientVars, renderVars>>

\* if (assistantMessage.tool_calls) for (const toolCall of ...) (A2UI)
EnterSpecLoop(s) ==
  /\ sess[s].pc = "specs"
  /\ LET ss == sess[s]
         calls == Get(ss.assistantMessage, "tool_calls")
     IN sess' = [sess EXCEPT ![s] =
          IF Falsy(calls) THEN [ss EXCEPT !.pc = "finish"]
          ELSE IF calls.k # "arr" THEN Throw(ss, TypeError)
          ELSE IF Len(calls.v) = 0 THEN [ss EXCEPT !.pc = "finish"]
          ELSE [ss EXCEPT !.i = 1, !.pc = "spec"]]
  /\ UNCHANGED <<uuid, clientVars, renderVars>>

\* an envelope without the fields of the specification
EnvelopeBare(args) == JObj(<<P("version", Str("1.0"))>>)

\* specification: { version: '1.0', ...args.specification }
Envelope(args) ==
  JObj(SetAll(<<P("version", Str("1.0"))>>, SpreadEntries(Get(args, "specification"))))

\* the loop with a JSON.parse of its own try/catch: a call whose arguments are
\* no JSON is passed over
EmitSpecLenient(s) ==
  /\ sess[s].pc = "spec"
  /\ LET ss == sess[s]
         n == Len(Get(ss.assistantMessage, "tool_calls").v)
         toolCall == CurrentToolCall(ss)
         fn == Get(toolCall, "function")
         next == [i |-> ss.i + 1, pc |-> IF ss.i < n THEN "spec" ELSE "finish"]
         specId == Uuid(uuid + 1)
     IN \E parsed \in {JsonParseValue(Get(fn, "arguments"))} :
        \E specification \in {IF parsed.ok THEN Envelope(parsed.val) ELSE JUndef} :
        IF toolCall.k \notin {"obj", "arr"} \/ (HasOwn(toolCall, "function") /\ ~CanRead(fn))
        THEN sess' = [sess EXCEPT ![s] = Throw(ss, TypeError)] /\ UNCHANGED uuid
        ELSE IF ~(HasOwn(toolCall, "function") /\ Get(fn, "name") = Str("render_custom_ui"))
        THEN sess' = [sess EXCEPT ![s] = [ss EXCEPT !.i = next.i, !.pc = next.pc]]
             /\ UNCHANGED uuid
        ELSE IF ~parsed.ok
        THEN sess' = [sess EXCEPT ![s] = [ss EXCEPT !.i = next.i, !.pc = next.pc]]
             /\ UNCHANGED uuid
        ELSE IF ~CanRead(parsed.val)
        THEN sess' = [sess EXCEPT ![s] = Throw(ss, TypeError)] /\ UNCHANGED uuid
        ELSE /\ sess' = [sess EXCEPT ![s] =
                  [Write(ss, JObj(<<P("type", Str(UI_SPEC)),
                                    P("specId", specId),
                                    P("specification", specification),
                                    P("parentMessageId", ss.messageId)>>))
                     EXCEPT !.i = next.i, !.pc = next.pc]]
             /\ uuid' = uuid + 1
  /\ UNCHANGED <<clientVars, renderVars>>

\* One iteration of the A2UI loop: a render_custom_ui function call has its
\* arguments parsed and is sent as one ui.spec event; any other tool call is
\* passed over.
EmitSpec(s) ==
  /\ sess[s].pc = "spec"
  /\ LET ss == sess[s]
         n == Len(Get(ss.assistantMessage, "tool_calls").v)
         toolCall == CurrentToolCall(ss)
         fn == Get(toolCall, "function")
         next == [i |-> ss.i + 1, pc |-> IF ss.i < n THEN "spec" ELSE "finish"]
         specId == Uuid(uuid + 1)
     IN \E parsed \in {JsonParseValue(Get(fn, "arguments"))} :
        \E specification \in {IF parsed.ok THEN Envelope(parsed.val) ELSE JUndef} :
        IF toolCall.k \notin {"obj", "arr"} \/ (HasOwn(toolCall, "function") /\ ~CanRead(fn))
        THEN sess' = [sess EXCEPT ![s] = Throw(ss, TypeError)] /\ UNCHANGED uuid
        ELSE IF ~(HasOwn(toolCall, "function") /\ Get(fn, "name") = Str("render_custom_ui"))
        THEN sess' = [sess EXCEPT ![s] = [ss EXCEPT !.i = next.i, !.pc = next.pc]]
             /\ UNCHANGED uuid
        ELSE IF ~parsed.ok
        THEN sess' = [sess EXCEPT ![s] = Throw(ss, SyntaxError)] /\ UNCHANGED uuid
        ELSE IF ~CanRead(parsed.val)
        THEN sess' = [sess EXCEPT ![s] = Throw(ss, TypeError)] /\ UNCHANGED uuid
        ELSE /\ sess' = [sess EXCEPT ![s] =
                  [Write(ss, JObj(<<P("type", Str(UI_SPEC)),
                                    P("specId", specId),
                                    P("specification", specification),
                                    P("parentMessageId", ss.messageId)>>))
                     EXCEPT !.i = next.i, !.pc = next.pc]]
             /\ uuid' = uuid + 1
  /\ UNCHANGED <<clientVars, renderVars>>

\* Send RUN_FINISHED
WriteRunFinished(s) ==
  /\ sess[s].pc = "finish"
  /\ LET ss == sess[s] IN
       sess' = [sess EXCEPT ![s] =
          [Write(ss, JObj(<<P("type", Str(RUN_FINISHED)),
                            P("threadId", ss.threadId),
                            P("runId", ss.runId)>>))
             EXCEPT !.pc = "end"]]
  /\ UNCHANGED <<uuid, clientVars, renderVars>>

\* res.end() at the end of the try block
EndResponse(s) ==
  /\ sess[s].pc = "end"
  /\ sess' = [sess EXCEPT ![s].ended = @ + 1, ![s].pc = "done"]
  /\ UNCHANGED <<uuid, clientVars, renderVars>>

\* error.message read without the instanceof test
ErrorMessageRaw(error) == IF error.k = "err" THEN JStr(error.v) ELSE JUndef

\* error instanceof Error ? error.message : 'Unknown error'
ErrorMessage(error) == IF error.k = "err" THEN JStr(error.v) ELSE Str("Unknown error")

\* error.message (/api/agent): the message of an Error, undefined for any
\* other value that has members
PlainErrorMessage(error) == IF error.k = "err" THEN JStr(error.v) ELSE JUndef

\* catch (error): send RUN_ERROR. In /api/agent `error.message` is read as it
\* is: for a thrown null or undefined the read throws inside the catch block,
\* the async handler rejects and neither the write nor res.end() is reached.
CatchError(s) ==
  /\ sess[s].pc = "catch"
  /\ LET ss == sess[s] IN
       sess' = [sess EXCEPT ![s] =
          IF ss.handler = "agent" /\ ~CanRead(ss.thrown) THEN [ss EXCEPT !.pc = "crashed"]
          ELSE [Write(ss, JObj(<<P("type", Str(RUN_ERROR)),
                                 P("message", IF ss.handler = "agent"
                                              THEN PlainErrorMessage(ss.thrown)
                                              ELSE ErrorMessage(ss.thrown)),
                                 P("code", Str("INTERNAL_ERROR"))>>))
                  EXCEPT !.pc = "endError"]]
  /\ UNCHANGED <<uuid, clientVars, renderVars>>

\* a catch block that leaves the response open
EndAfterErrorOpen(s) ==
  /\ sess[s].pc = "endError"
  /\ sess' = [sess EXCEPT ![s].pc = "done"]
  /\ UNCHANGED <<uuid, clientVars, renderVars>>

\* res.end() at the end of the catch block
EndAfterError(s) ==
  /\ sess[s].pc = "endError"
  /\ sess' = [sess EXCEPT ![s].ended = @ + 1, ![s].pc = "done"]
  /\ UNCHANGED <<uuid, clientVars, renderVars>>

----------------------------------------------------------------------------
(* Requests and provider outcomes *)

ChatMessage(role, content) == JObj(<<P("role", Str(role)), P("content", content)>>)
UserMessage == ChatMessage("user", Str("show me a card"))
AssistantReply == ChatMessage("assistant", Str("Hello"))
\* the clients send a rendered tool-call entry as { role: 'tool' } (no content)
RenderedTool == ChatMessage("tool", JUndef)

\* AgentRequest: { messages, threadId?, runId? }
Requests ==
  { JObj(<<P("messages", JArr(<<UserMessage>>)),
           P("threadId", Str("thread-1")), P("runId", Str("run-1"))>>),
    JObj(<<P("messages", JArr(<<UserMessage, RenderedTool, AssistantReply, UserMessage>>))>>),
    JObj(<<P("messages", JArr(<<UserMessage>>)),
           P("threadId", JStr(<<>>)), P("runId", Str("run-1"))>>),
    JObj(<<>>) }

\* a tool call of the completion: { id, type: 'function', function: { name, arguments } }
FunctionCall(name, arguments) ==
  JObj(<<P("id", Str("call-1")), P("type", Str("function")),
         P("function", JObj(<<P("name", Str(name)), P("arguments", JStr(arguments))>>))>>)

\* a tool call that carries no `function` member
CustomCall ==
  JObj(<<P("id", Str("call-2")), P("type", Str("custom")),
         P("custom", JObj(<<P("name", Str("lookup")), P("input", Str("x"))>>))>>)

CardSpec == JObj(<<P("component", Str("card"))>>)
VersionedSpec == JObj(<<P("version", Str("2.0")), P("component", Str("card"))>>)
ChartArgs == Stringify(JObj(<<P("title", Str("Sales"))>>))
SpecArgs == Stringify(JObj(<<P("specification", CardSpec)>>))
VersionedArgs == Stringify(JObj(<<P("specification", VersionedSpec)>>))
TruncatedArgs == SubSeq(SpecArgs, 1, Len(SpecArgs) - 1)
NullArgs == <<"null">>

ToolCallPool ==
  { FunctionCall("show_chart", ChartArgs),
    FunctionCall("render_custom_ui", SpecArgs),
    FunctionCall("render_custom_ui", VersionedArgs),
    FunctionCall("render_custom_ui", TruncatedArgs),
    FunctionCall("render_custom_ui", NullArgs),
    CustomCall }

MaxToolCalls == 2
ToolCallLists == UNION {[1..n -> ToolCallPool] : n \in 0..MaxToolCalls}

Contents == {JNull, JStr(<<>>), Str("Hello")}

\* ChatCompletion: { choices: [{ index, message: { role, content, tool_calls } }] }
Completion(content, calls) ==
  JObj(<<P("choices", JArr(<<
     JObj(<<P("index", JNum(0)),
            P("message", JObj(<<P("role", Str("assistant")),
                                P("content", content),
                                P("tool_calls", calls)>>))>>)>>))>>)

Resolves(response) == [rejects |-> FALSE, val |-> response]
Rejects(thrown) == [rejects |-> TRUE, val |-> thrown]

Outcomes ==
  {Rejects(e) : e \in {JErr(<<"Connection error.">>), Str("timeout"), JNull}}
  \cup {Resolves(JObj(<<P("choices", JArr(<<>>))>>))}
  \cup {Resolves(Completion(c, JUndef)) : c \in Contents}
  \cup {Resolves(Completion(c, JArr(l))) : c \in Contents, l \in ToolCallLists}

----------------------------------------------------------------------------
(* The chat clients: event accumulation (ChatInterface.tsx of agui and a2ui) *)

Apps == {"agui", "a2ui"}

\* String(x), as `+=` on a string and a template literal convert a value
RECURSIVE ToStr(_), Join(_)
ToStr(x) ==
  CASE x.k = "str" -> x.v
    [] x.k = "undef" -> <<"undefined">>
    [] x.k = "null" -> <<"null">>
    [] x.k = "num" -> <<ToString(x.v[1])>>
    [] x.k = "bool" -> IF x.v[1] THEN <<"true">> ELSE <<"false">>
    [] x.k = "arr" -> Join(x.v)
    [] x.k = "err" -> <<"Error: ">> \o x.v
    [] OTHER -> <<"[object Object]">>

\* Array.prototype.join(): undefined and null elements give the empty text
Join(a) ==
  IF a = <<>> THEN <<>>
  ELSE (IF CanRead(Head(a)) THEN ToStr(Head(a)) ELSE <<>>)
         \o (IF Len(a) > 1 THEN <<",">> ELSE <<>>) \o Join(Tail(a))

\* a === b; object identity is not modelled, two objects are never the same
StrictEq(a, b) == a = b /\ a.k \notin {"obj", "arr", "err"}

\* input.trim()
RECURSIVE TrimStart(_)
TrimStart(t) == IF t # <<>> /\ Head(t) \in {" ", NL} THEN TrimStart(Tail(t)) ELSE t
Reverse(t) == [i \in 1..Len(t) |-> t[Len(t) + 1 - i]]
Trim(t) == Reverse(TrimStart(Reverse(TrimStart(t))))

\* One entry of the conversation (the timestamp is left out).
Entry(id, role) ==
  [id |-> id, role |-> role, content |-> JUndef, toolName |-> JUndef,
   toolArgs |-> JUndef, uiSpec |-> JUndef, isError |-> FALSE]

NoToolCall == [set |-> FALSE, id |-> JUndef, name |-> JUndef, args |-> <<>>]

\* The state a run of sendMessage works on: the React state it updates, its
\* closure variables, and the events its switch statement has been given.
ReaderState(msgs, loading, n) ==
  [messages |-> msgs, isLoading |-> loading, uuid |-> n,
   currentMessageId |-> JNull, currentMessageContent |-> <<>>,
   currentToolCall |-> NoToolCall, seen |-> <<>>]

\* the updater without its search for an existing entry
UpsertAppend(prev, id, content) ==
  Append(prev, [Entry(id, "assistant") EXCEPT !.content = JStr(content)])

\* setMessages((prev) => existing ? prev.map(...) : [...prev, {...}])
\* (an updater is applied where it is queued: between the queueing and the
\* render the closure variables it reads keep their values, for one text
\* message per response)
Upsert(prev, id, content) ==
  IF \E i \in 1..Len(prev) : StrictEq(prev[i].id, id)
  THEN [i \in 1..Len(prev) |->
          IF StrictEq(prev[i].id, id) THEN [prev[i] EXCEPT !.content = JStr(content)]
          ELSE prev[i]]
  ELSE Append(prev, [Entry(id, "assistant") EXCEPT !.content = JStr(content)])

\* the delta taking the place of what was accumulated
AddDeltaLast(call, delta) == [call EXCEPT !.args = ToStr(delta)]

\* currentToolCall.args += eventData.delta
AddDelta(call, delta) == [call EXCEPT !.args = @ \o ToStr(delta)]

\* case 'tool_call.end' with `currentToolCall = null` inside the try block: a
\* SyntaxError of JSON.parse leaves the tool call open
EndToolCallOpen(st) ==
  LET call == st.currentToolCall
      Added(parsedArgs) ==
        IF parsedArgs.ok
        THEN [st EXCEPT !.currentToolCall = NoToolCall,
                        !.messages = Append(@,
                           [Entry(call.id, "tool") EXCEPT
                              !.toolName = call.name,
                              !.toolArgs = parsedArgs.val])]
        ELSE st
  IN With(JsonParse(call.args), Added)

\* case 'tool_call.end' that shows the tool call only below text already
\* received
EndToolCallAfterText(st) ==
  LET call == st.currentToolCall
      Added(parsedArgs) ==
        IF parsedArgs.ok /\ st.currentMessageContent # <<>>
        THEN [st EXCEPT !.currentToolCall = NoToolCall,
                        !.messages = Append(@,
                           [Entry(call.id, "tool") EXCEPT
                              !.toolName = call.name,
                              !.toolArgs = parsedArgs.val])]
        ELSE [st EXCEPT !.currentToolCall = NoToolCall]
  IN With(JsonParse(call.args), Added)

\* case 'tool_call.end' with a tool call open: the arguments are parsed and
\* the entry appended, or the SyntaxError is caught and logged; then
\* currentToolCall = null
EndToolCall(st) ==
  LET call == st.currentToolCall
      Added(parsedArgs) ==
        IF parsedArgs.ok
        THEN [st EXCEPT !.currentToolCall = NoToolCall,
                        !.messages = Append(@,
                           [Entry(call.id, "tool") EXCEPT
                              !.toolName = call.name,
                              !.toolArgs = parsedArgs.val])]
        ELSE [st EXCEPT !.currentToolCall = NoToolCall]
  IN With(JsonParse(call.args), Added)

\* switch (eventData.type) of the AGUI client
AguiEvent(st, e) ==
  LET type == Get(e, "type") IN
  CASE type = Str("text_message.start") ->
         [st EXCEPT !.currentMessageId = Get(e, "messageId"),
                    !.currentMessageContent = <<>>]
    [] type = Str("text_message.content") ->
         LET content == st.currentMessageContent \o ToStr(Get(e, "delta")) IN
         [st EXCEPT !.currentMessageContent = content,
                    !.messages = Upsert(@, st.currentMessageId, content)]
    [] type = Str("tool_call.start") ->
         [st EXCEPT !.currentToolCall =
            [set |-> TRUE, id |-> Get(e, "toolCallId"),
             name |-> Get(e, "toolCallName"), args |-> <<>>]]
    [] type = Str("tool_call.args") ->
         IF st.currentToolCall.set
         THEN [st EXCEPT !.currentToolCall = AddDelta(@, Get(e, "delta"))]
         ELSE st
    [] type = Str("tool_call.end") ->
         IF st.currentToolCall.set THEN EndToolCall(st) ELSE st
    [] type = Str("run.finished") -> [st EXCEPT !.isLoading = FALSE]
    [] type = Str("run.error") ->
         [st EXCEPT !.messages = Append(@,
                       [Entry(Uuid(st.uuid + 1), "assistant") EXCEPT
                          !.content = JStr(<<"Error: ">> \o ToStr(Get(e, "message"))),
                          !.isError = TRUE]),
                    !.uuid = @ + 1,
                    !.isLoading = FALSE]
    [] OTHER -> st

\* a specification shown once for each specId: an event whose specId an entry
\* already has is dropped
ShowSpecOnce(st, e) ==
  IF \E i \in 1..Len(st.messages) : StrictEq(st.messages[i].id, Get(e, "specId")) THEN st
  ELSE [st EXCEPT !.messages = Append(@,
          [Entry(Get(e, "specId"), "assistant") EXCEPT
             !.uiSpec = Get(e, "specification")])]

\* case 'ui.spec': setMessages((prev) => [...prev, {id: specId, role:
\* 'assistant', uiSpec: specification, timestamp}])
ShowSpec(st, e) ==
  [st EXCEPT !.messages = Append(@,
     [Entry(Get(e, "specId"), "assistant") EXCEPT
        !.uiSpec = Get(e, "specification")])]

\* switch (eventData.type) of the A2UI client
A2uiEvent(st, e) ==
  LET type == Get(e, "type") IN
  CASE type = Str("text.message.start") ->
         [st EXCEPT !.currentMessageId = Get(e, "messageId"),
                    !.currentMessageContent = <<>>]
    [] type = Str("text.message.content") ->
         IF StrictEq(st.currentMessageId, Get(e, "messageId"))
         THEN LET content == st.currentMessageContent \o ToStr(Get(e, "content")) IN
              [st EXCEPT !.currentMessageContent = content,
                         !.messages = Upsert(@, st.currentMessageId, content)]
         ELSE st
    [] type = Str("text.message.end") -> [st EXCEPT !.currentMessageId = JNull]
    [] type = Str("ui.spec") -> ShowSpec(st, e)
    [] type = Str("run.finished") -> [st EXCEPT !.isLoading = FALSE]
    [] type = Str("run.error") -> [st EXCEPT !.isLoading = FALSE]
    [] OTHER -> st

\* the frame loop without its inner try/catch: a payload that cannot be parsed
\* takes the run to the outer catch block
ProcessLineFatal(a, st, line) ==
  IF ~StartsWith(line, DataPrefix) THEN st
  ELSE LET Switch(parsed) ==
             IF ~parsed.ok \/ ~CanRead(parsed.val)
             THEN [st EXCEPT !.isLoading = FALSE,
                             !.uuid = @ + 1,
                             !.messages = Append(@,
                                [Entry(Uuid(st.uuid + 1), "assistant") EXCEPT
                                   !.content = Str("Sorry, there was an error processing your request."),
                                   !.isError = TRUE])]
             ELSE LET given == [st EXCEPT !.seen = Append(@, parsed.val)] IN
                  IF a = "agui" THEN AguiEvent(given, parsed.val)
                  ELSE A2uiEvent(given, parsed.val)
       IN With(JsonParse(Slice(line, 6)), Switch)

\* The body of `for (const line of lines)`: a line that starts with `data: `
\* is parsed and given to the switch; a SyntaxError of JSON.parse and the
\* TypeError of reading `.type` of null are caught and logged.
ProcessLine(a, st, line) ==
  IF ~StartsWith(line, DataPrefix) THEN st
  ELSE LET Switch(parsed) ==
             IF ~parsed.ok \/ ~CanRead(parsed.val) THEN st
             ELSE LET given == [st EXCEPT !.seen = Append(@, parsed.val)] IN
                  IF a = "agui" THEN AguiEvent(given, parsed.val)
                  ELSE A2uiEvent(given, parsed.val)
       IN With(JsonParse(Slice(line, 6)), Switch)

RECURSIVE ProcessLines(_, _, _)
ProcessLines(a, st, lines) ==
  IF lines = <<>> THEN st
  ELSE LET Rest(next) == ProcessLines(a, next, Tail(lines))
       IN With(ProcessLine(a, st, Head(lines)), Rest)

\* One turn of the read loop: decoder.decode(value), chunk.split('\n'), and the
\* lines of this chunk one after the other.
ProcessChunk(a, st, chunk) == ProcessLines(a, st, SplitLines(chunk))

\* What sendMessage posts: role and content of every entry, the new user
\* message included, and two fresh ids. An A2UI entry without text stands in
\* the history as '[Generated UI Component]' or ''.
HistoryContent(a, m) ==
  IF a = "agui" THEN m.content
  ELSE Or(m.content, IF Truthy(m.uiSpec) THEN Str("[Generated UI Component]") ELSE JStr(<<>>))

RequestBody(a, msgs, n) ==
  JObj(<<P("messages", JArr([i \in 1..Len(msgs) |->
                               JObj(<<P("role", Str(msgs[i].role)),
                                      P("content", HistoryContent(a, msgs[i]))>>)])),
         P("threadId", Uuid(n + 1)),
         P("runId", Uuid(n + 2))>>)

\* req.body: the JSON text of the request as express.json() parses it
Received(body) == JsonParse(Stringify(body)).val

NewRun(body, msgs) ==
  [pc |-> "fetch", body |-> body, sent |-> msgs, session |-> 0, pos |-> 0,
   currentMessageId |-> JNull, currentMessageContent |-> <<>>,
   currentToolCall |-> NoToolCall, seen |-> <<>>]

\* accumulation variables declared once for the component, which every
\* invocation of sendMessage works on (the last one started has reset them)
StateOfShared(run) ==
  [messages |-> messages, isLoading |-> isLoading, uuid |-> uuid,
   currentMessageId |-> runs[Len(runs)].currentMessageId,
   currentMessageContent |-> runs[Len(runs)].currentMessageContent,
   currentToolCall |-> runs[Len(runs)].currentToolCall, seen |-> run.seen]

\* what the read loop of a run works on: the React state, and the variables
\* declared with `let` inside this invocation of sendMessage
StateOf(run) ==
  [messages |-> messages, isLoading |-> isLoading, uuid |-> uuid,
   currentMessageId |-> run.currentMessageId,
   currentMessageContent |-> run.currentMessageContent,
   currentToolCall |-> run.currentToolCall, seen |-> run.seen]

Inputs == {<<>>, <<" ">>, <<"Show", " ", "sales">>}

\* byte boundaries at which the network may end a chunk: after a line feed,
\* and inside a frame after a colon or a comma
CutAfter == {NL, ":", ","}
MaxSplits == 1

\* onChange of the text input, which is disabled while loading
SetInput(t) ==
  /\ ~isLoading
  /\ input # t
  /\ input' = t
  /\ UNCHANGED <<sess, uuid, messages, isLoading, app, runs, splits, renderVars>>

\* sendMessage without its first statement
SendUpToUnguarded(limit) ==
  /\ Len(runs) < limit
  /\ LET userMessage == [Entry(Uuid(uuid + 1), "user") EXCEPT !.content = JStr(input)]
         all == Append(messages, userMessage)
     IN /\ messages' = all
        /\ runs' = Append(runs, NewRun(RequestBody(app, all, uuid + 1), all))
  /\ input' = <<>>
  /\ isLoading' = TRUE
  /\ uuid' = uuid + 3
  /\ UNCHANGED <<sess, app, splits, renderVars>>

\* sendMessage up to `await fetch(...)`
SendUpTo(limit) ==
  /\ Trim(input) # <<>>
  /\ ~isLoading
  /\ Len(runs) < limit
  /\ LET userMessage == [Entry(Uuid(uuid + 1), "user") EXCEPT !.content = JStr(input)]
         all == Append(messages, userMessage)
     IN /\ messages' = all
        /\ runs' = Append(runs, NewRun(RequestBody(app, all, uuid + 1), all))
  /\ input' = <<>>
  /\ isLoading' = TRUE
  /\ uuid' = uuid + 3
  /\ UNCHANGED <<sess, app, splits, renderVars>>

SendMessage == SendUpTo(MaxRuns)

\* The request reaches the handler of this front end, whose response the
\* fetch resolves with.
FetchIn(r, sessions) ==
  /\ runs[r].pc = "fetch"
  /\ \E s \in sessions : \E body \in {Received(runs[r].body)} :
       /\ \A t \in sessions : t < s => sess[t].pc # "idle"
       /\ Accept(s, app, body)
       /\ runs' = [runs EXCEPT ![r].pc = "reading", ![r].session = s]
  /\ UNCHANGED <<messages, input, isLoading, app, splits, renderVars>>

Fetch(r) == FetchIn(r, Sessions)

\* the entry the outer catch block appends
FailureEntry(a, n) ==
  IF a = "agui"
  THEN [Entry(Uuid(n), "assistant") EXCEPT
          !.content = Str("Sorry, there was an error processing your request."),
          !.isError = TRUE]
  ELSE [Entry(Uuid(n), "assistant") EXCEPT
          !.content = Str("Error: Could not connect to the server. Please make sure the backend is running.")]

\* fetch rejects (the server cannot be reached): the outer catch block, and
\* the finally block of the A2UI client
FetchFails(r) ==
  /\ runs[r].pc = "fetch"
  /\ runs' = [runs EXCEPT ![r].pc = "failed"]
  /\ messages' = Append(messages, FailureEntry(app, uuid + 1))
  /\ uuid' = uuid + 1
  /\ isLoading' = FALSE
  /\ UNCHANGED <<sess, input, app, splits, renderVars>>

\* reader.read() resolves with a chunk: some of the bytes written and not yet
\* read, processed by one turn of the loop; at most `limit` chunks of a
\* conversation end inside a line
ReadUpTo(r, limit) ==
  /\ runs[r].pc = "reading"
  /\ LET run == runs[r]
         wire == sess[run.session].wire
     IN \E n \in 1..(Len(wire) - run.pos) :
          /\ n = Len(wire) - run.pos \/ wire[run.pos + n] \in CutAfter
          /\ wire[run.pos + n] # NL => splits < limit
          /\ splits' = IF wire[run.pos + n] # NL THEN splits + 1 ELSE splits
          /\ \E st \in {ProcessChunk(app, StateOf(run),
                                     SubSeq(wire, run.pos + 1, run.pos + n))} :
               /\ messages' = st.messages
               /\ isLoading' = st.isLoading
               /\ uuid' = st.uuid
               /\ runs' = [runs EXCEPT ![r] =
                    [run EXCEPT !.pos = @ + n,
                                !.currentMessageId = st.currentMessageId,
                                !.currentMessageContent = st.currentMessageContent,
                                !.currentToolCall = st.currentToolCall,
                                !.seen = st.seen]]
  /\ UNCHANGED <<sess, input, app, renderVars>>

Read(r) == ReadUpTo(r, MaxSplits)

\* what the code after the loop does to the loading flag: nothing in the AGUI
\* client, `finally { setIsLoading(false) }` in the A2UI client
AfterLoop(a, loading) == IF a = "agui" THEN loading ELSE FALSE

\* reader.read() resolves with done: the response was ended and every byte read
StreamEnd(r) ==
  /\ runs[r].pc = "reading"
  /\ sess[runs[r].session].ended > 0
  /\ runs[r].pos = Len(sess[runs[r].session].wire)
  /\ runs' = [runs EXCEPT ![r].pc = "done"]
  /\ isLoading' = AfterLoop(app, isLoading)
  /\ UNCHANGED <<sess, uuid, messages, input, app, splits, renderVars>>

----------------------------------------------------------------------------
(* The specification interpreter (A2UIRenderer.tsx) *)

\* What UIComponent gives for a node: null, an element with the views of the
\* child nodes it renders, a placeholder, or an exception thrown on the way.
\* `shown` holds what the element shows of the node: class names chosen by the
\* helper functions, and the texts of the 'Unknown component' placeholder.
NoView == [k |-> "none", tag |-> "", kids |-> <<>>, shown |-> <<>>]
Nothing == [k |-> "null", tag |-> "", kids |-> <<>>, shown |-> <<>>]
Thrown == [k |-> "throw", tag |-> "", kids |-> <<>>, shown |-> <<>>]
Placeholder(what) == [k |-> "placeholder", tag |-> what, kids |-> <<>>, shown |-> <<>>]
Element(tag, kids) ==
  IF \E i \in 1..Len(kids) : kids[i].k = "throw" THEN Thrown
  ELSE [k |-> "element", tag |-> tag, kids |-> kids, shown |-> <<>>]

\* an element or placeholder with what it shows
Show(v, shown) == IF v.k = "throw" THEN v ELSE [v EXCEPT !.shown = shown]

\* default: the placeholder with the tag and JSON.stringify(spec, null, 2)
\* (the white space of the indentation is left out)
Unknown(component, node) ==
  Show(Placeholder("unknown"), <<component, JStr(Stringify(node))>>)

\* names every object inherits from Object.prototype
Inherited == {"constructor", "toString", "valueOf", "hasOwnProperty", "__proto__"}

\* table[key] of an object literal: the own property of that name, else what
\* the prototype chain gives (a function or object, never a string), else
\* undefined
Lookup(table, key) ==
  LET name == ToStr(key) IN
  IF \E i \in 1..Len(table) : table[i].key = name
  THEN table[CHOOSE i \in 1..Len(table) : table[i].key = name].val
  ELSE IF name \in {<<n>> : n \in Inherited} THEN JFn(name[1])
  ELSE JUndef

getLayoutClasses(layout) ==
  CASE layout = Str("vertical") -> Str("flex flex-col gap-4")
    [] layout = Str("horizontal") -> Str("flex flex-row gap-4 items-center")
    [] layout = Str("grid") -> Str("grid grid-cols-2 gap-4")
    [] OTHER -> Str("flex flex-col gap-4")

colMap ==
  <<P("1", Str("grid-cols-1")), P("2", Str("grid-cols-2")), P("3", Str("grid-cols-3")),
    P("4", Str("grid-cols-4")), P("5", Str("grid-cols-5")), P("6", Str("grid-cols-6"))>>

\* colMap[cols] alone, without the fallback behind it
getGridColsBare(columns) == Lookup(colMap, Or(columns, JNum(2)))

getGridCols(columns) == Or(Lookup(colMap, Or(columns, JNum(2))), Str("grid-cols-2"))

badgeColors ==
  <<P("blue", Str("bg-blue-100 text-blue-800")), P("green", Str("bg-green-100 text-green-800")),
    P("red", Str("bg-red-100 text-red-800")), P("yellow", Str("bg-yellow-100 text-yellow-800")),
    P("purple", Str("bg-purple-100 text-purple-800")), P("gray", Str("bg-gray-100 text-gray-800")),
    P("orange", Str("bg-orange-100 text-orange-800"))>>

getBadgeColor(color) ==
  Or(Lookup(badgeColors, Or(color, Str("gray"))), Lookup(badgeColors, Str("gray")))

progressColors ==
  <<P("blue", Str("bg-blue-600")), P("green", Str("bg-green-600")), P("red", Str("bg-red-600")),
    P("yellow", Str("bg-yellow-600")), P("purple", Str("bg-purple-600"))>>

getProgressColor(color) ==
  Or(Lookup(progressColors, Or(color, Str("blue"))), Lookup(progressColors, Str("blue")))

headingSizes ==
  <<P("1", Str("text-4xl")), P("2", Str("text-3xl")), P("3", Str("text-2xl")),
    P("4", Str("text-xl")), P("5", Str("text-lg")), P("6", Str("text-base"))>>

getHeadingSize(level) == Or(Lookup(headingSizes, level), Lookup(headingSizes, JNum(2)))

alertStyles ==
  <<P("info", Str("bg-blue-50 border-blue-200 text-blue-800")),
    P("success", Str("bg-green-50 border-green-200 text-green-800")),
    P("warning", Str("bg-yellow-50 border-yellow-200 text-yellow-800")),
    P("error", Str("bg-red-50 border-red-200 text-red-800"))>>

getAlertStyles(type) ==
  Or(Lookup(alertStyles, Or(type, Str("info"))), Lookup(alertStyles, Str("info")))

alertIcons ==
  <<P("info", Str("i")), P("success", Str("ok")), P("warning", Str("!")), P("error", Str("x"))>>

getAlertIcon(type) ==
  Or(Lookup(alertIcons, Or(type, Str("info"))), Lookup(alertIcons, Str("info")))

\* what the element of a node with tag c shows through the helper functions
Styles(c, props, layout) ==
  CASE c = "container" -> <<getLayoutClasses(layout)>>
    [] c = "grid" -> <<getGridCols(Get(props, "columns"))>>
    [] c = "heading" -> <<Or(Get(props, "level"), JNum(2)),
                          getHeadingSize(Or(Get(props, "level"), JNum(2)))>>
    [] c = "badge" -> <<getBadgeColor(Get(props, "color"))>>
    [] c = "progress" -> <<getProgressColor(Get(props, "color"))>>
    [] c = "alert" -> <<getAlertStyles(Get(props, "type")), getAlertIcon(Get(props, "type"))>>
    [] OTHER -> <<>>

\* x.map(...) and x.filter(...) are calls of a method only an array has
IsArray(x) == x.k = "arr"

\* a filter that lets through only children whose tag the switch has a case for
KeepKnownChild(child) ==
  /\ Truthy(child)
  /\ Get(child, "component").k = "str"
  /\ Get(child, "component").v \in
       {<<t>> : t \in {"container", "card", "heading", "text", "button", "image", "list",
                       "grid", "badge", "divider", "spacer", "metric", "progress", "link",
                       "alert", "code", "table"}}

\* (child) => child && child.component
KeepChild(child) == Truthy(child) /\ Truthy(Get(child, "component"))

\* const { component, props = {}, children = [], layout, style } = spec
Default(x, d) == IF x.k = "undef" THEN d ELSE x

\* components whose case reads a member of props
ReadsProps ==
  {"heading", "text", "button", "image", "list", "grid", "badge", "spacer",
   "metric", "progress", "link", "alert", "code", "table"}

LeafTags ==
  [heading |-> "h", text |-> "p", button |-> "button", image |-> "img",
   badge |-> "span", divider |-> "hr", spacer |-> "div", metric |-> "div",
   progress |-> "div", link |-> "a", alert |-> "div", code |-> "pre"]

\* (props.rows || []).map((row) => row.map(...))
RowsThrow(rows) ==
  Truthy(rows) /\ (~IsArray(rows) \/ \E i \in 1..Len(rows.v) : ~IsArray(rows.v[i]))

RECURSIVE UIComponent(_)
UIComponent(node) ==
  IF Falsy(node) \/ TypeOf(node) # "object" THEN Nothing
  ELSE
    LET component == Get(node, "component")
        props == Default(Get(node, "props"), JObj(<<>>))
        children == Default(Get(node, "children"), JArr(<<>>))
        Children(tag) ==
          IF ~IsArray(children) THEN Thrown
          ELSE LET kept == SelectSeq(children.v, KeepChild)
               IN Element(tag, [i \in 1..Len(kept) |-> UIComponent(kept[i])])
    IN IF Falsy(component) \/ TypeOf(component) # "string" THEN Placeholder("invalid")
       ELSE IF component.v \in {<<c>> : c \in ReadsProps} /\ ~CanRead(props) THEN Thrown
       ELSE IF component.v \in {<<"container">>, <<"card">>, <<"grid">>}
       THEN Show(Children("div"), Styles(component.v[1], props, Get(node, "layout")))
       ELSE IF component.v = <<"list">> THEN
         LET items == Get(props, "items") IN
         IF Truthy(items) /\ ~IsArray(items) THEN Thrown
         ELSE Element("ul", [i \in 1..Len(Or(items, JArr(<<>>)).v) |-> Element("li", <<>>)])
       ELSE IF component.v = <<"table">> THEN
         LET headers == Get(props, "headers")
             rows == Get(props, "rows")
         IN IF (Truthy(headers) /\ ~IsArray(headers)) \/ RowsThrow(rows) THEN Thrown
            ELSE Element("div", <<Element("table", <<>>)>>)
       ELSE IF component.v \in {<<c>> : c \in DOMAIN LeafTags}
       THEN Show(Element(LeafTags[component.v[1]], <<>>),
                 Styles(component.v[1], props, Get(node, "layout")))
       ELSE Unknown(component, node)

\* the number of levels below the root at which the view has a node
RECURSIVE Deepest(_)
Deepest(v) ==
  IF v.kids = <<>> THEN 0
  ELSE 1 + (CHOOSE d \in {Deepest(v.kids[i]) : i \in 1..Len(v.kids)} :
              \A i \in 1..Len(v.kids) : Deepest(v.kids[i]) <= d)

\* Specifications: every combination of a component tag, props, children and
\* style, values that are no objects, and containers nested in one another.
Node(component, props, children, style) ==
  JObj(<<P("version", Str("1.0")), P("component", component), P("props", props),
         P("children", children), P("style", style)>>)

TextNode == Node(Str("text"), JObj(<<P("content", Str("Hello"))>>), JUndef, JUndef)

ComponentChoices ==
  {Str(c) : c \in DOMAIN LeafTags \cup {"container", "card", "grid", "list", "table", "chart"}}
    \cup {JUndef, JNum(1)}

GoodProps ==
  JObj(<<P("level", JNum(1)), P("text", Str("Title")), P("content", Str("Hello")),
         P("items", JArr(<<Str("a"), Str("b")>>)), P("columns", JNum(2)),
         P("headers", JArr(<<Str("h")>>)), P("rows", JArr(<<JArr(<<Str("c")>>)>>))>>)

PropsChoices ==
  { JUndef, JNull, JObj(<<>>), Str("oops"), GoodProps,
    JObj(<<P("items", Str("a,b")), P("headers", Str("h")), P("rows", JArr(<<>>))>>),
    JObj(<<P("rows", Str("c"))>>),
    JObj(<<P("rows", JArr(<<Str("c")>>))>>) }

ChildrenChoices ==
  { JUndef, JNull, Str("child"), JArr(<<>>), JArr(<<TextNode>>),
    JArr(<<JNull, Str("x"), JObj(<<>>), Node(Str("card"), JUndef, JNull, JUndef)>>) }

StyleChoices == {JUndef, JNull, Str("color: red")}

\* a node with a tag no case of the switch names, and one whose tag is a number
ChartNode == JObj(<<P("component", Str("chart")), P("props", JObj(<<P("title", Str("Sales"))>>))>>)
NumberTagNode == JObj(<<P("component", JNum(1))>>)

\* children lists with such nodes among text nodes and values that are no node
MixedChildren ==
  { JArr(<<TextNode, ChartNode, TextNode>>),
    JArr(<<ChartNode, JNull, TextNode, ChartNode>>),
    JArr(<<JNull, TextNode, NumberTagNode, Str("x")>>) }

\* values a specification may carry for level, columns, color, type and layout
StyleValues ==
  { JUndef, JNull, JNum(0), JNum(1), JNum(2), JNum(MaxNum + 1),
    Str("1"), Str("blue"), Str("orange"), Str("teal"), Str("warning"), Str("horizontal"),
    Str("constructor"), Str("toString") }

\* a node that carries the value v wherever a helper function reads one
StyledNode(c, v) ==
  JObj(<<P("component", Str(c)),
         P("props", JObj(<<P("level", v), P("columns", v), P("color", v), P("type", v),
                           P("text", Str("Title"))>>)),
         P("layout", v)>>)

StyledTags == {"container", "grid", "heading", "badge", "progress", "alert"}

MAX_DEPTH == 10
MaxNesting == 13

RECURSIVE Nested(_)
Nested(d) ==
  IF d = 0 THEN TextNode
  ELSE Node(Str(IF d % 3 = 0 THEN "container" ELSE IF d % 3 = 1 THEN "card" ELSE "grid"),
            JUndef, JArr(<<Nested(d - 1)>>), JUndef)

Specs ==
  {Node(c, p, ch, st) : c \in ComponentChoices, p \in PropsChoices,
                        ch \in ChildrenChoices, st \in StyleChoices}
    \cup {JNull, Str("card"), JNum(1), JArr(<<>>)}
    \cup {Node(Str(c), JUndef, ch, JUndef) : c \in {"container", "card", "grid"}, ch \in MixedChildren}
    \cup {ChartNode}
    \cup {StyledNode(c, v) : c \in StyledTags, v \in StyleValues}
    \cup {JObj(<<P("component", Str(c))>>) : c \in StyledTags}
    \cup {Nested(d) : d \in 1..MaxNesting}

\* <A2UIRenderer spec={...} /> is rendered
Mount(sp) ==
  /\ view = NoView
  /\ spec' = sp
  /\ view' = UIComponent(sp)
  /\ UNCHANGED <<sess, uuid, clientVars>>

\* the renderer is taken off the page
Unmount ==
  /\ view # NoView
  /\ spec' = JUndef
  /\ view' = NoView
  /\ UNCHANGED <<sess, uuid, clientVars>>

----------------------------------------------------------------------------
(* The server on its own: one session, any request, any provider outcome *)

Start ==
  /\ sess = [s \in AllSessions |-> IdleSession]
  /\ uuid = 0
  /\ messages = <<>>
  /\ input = <<>>
  /\ isLoading = FALSE
  /\ runs = <<>>
  /\ splits = 0
  /\ spec = JUndef
  /\ view = NoView

Init == Start /\ app = "agui"

Request(s) == \E h \in Handlers, body \in Requests : HandleRequest(s, h, body)

Provider(s) == ProviderCall(s, Outcomes)

Next ==
  \E s \in Sessions :
    \/ Request(s)
    \/ Prepare(s)
    \/ Provider(s)
    \/ TakeMessage(s)
    \/ WriteTextStart(s)
    \/ EnterToolLoop(s)
    \/ ToolCallStart(s)
    \/ ToolCallArgs(s)
    \/ ToolCallEnd(s)
    \/ WriteTextContent(s)
    \/ WriteTextEnd(s)
    \/ EnterSpecLoop(s)
    \/ EmitSpec(s)
    \/ WriteRunFinished(s)
    \/ EndResponse(s)
    \/ CatchError(s)
    \/ EndAfterError(s)

Spec == Init /\ [][Next]_vars

\* An async handler runs on to its end, and the awaited provider call settles.
FairSpec == Spec /\ WF_vars(Next)

-----------------------------------------------------------------------------
(* The typed handler and the plain JavaScript handler given the same request *)

\* what the provider may do with a request given to both handlers
PairOutcomes ==
  {Rejects(e) : e \in {JErr(<<"Connection error.">>), Str("timeout"), JNull}}
    \cup { Resolves(Completion(Str("Hello"), JUndef)),
           Resolves(Completion(JNull, JUndef)),
           Resolves(Completion(JNull, JArr(<<FunctionCall("show_chart", ChartArgs)>>))),
           Resolves(Completion(Str("Hello"),
                               JArr(<<FunctionCall("show_chart", ChartArgs), CustomCall>>))),
           Resolves(JObj(<<P("choices", JArr(<<>>))>>)) }

\* the handler has returned, or has stopped at an exception nothing catches
Over(ss) == ss.pc \in {"done", "crashed"}

\* POST /api/agui, and then the same body as POST /api/agent
PairRequest(s) ==
  \/ /\ s = 1
     /\ \E body \in Requests : HandleRequest(s, "agui", body)
  \/ /\ s = 2
     /\ Over(sess[1])
     /\ HandleRequest(s, "agent", sess[1].body)

PairProvider(s) == ProviderCall(s, PairOutcomes)

PairNext ==
  \E s \in AppSessions :
    \/ PairRequest(s)
    \/ Prepare(s)
    \/ PairProvider(s)
    \/ TakeMessage(s)
    \/ WriteTextStart(s)
    \/ EnterToolLoop(s)
    \/ ToolCallStart(s)
    \/ ToolCallArgs(s)
    \/ ToolCallEnd(s)
    \/ WriteTextContent(s)
    \/ WriteTextEnd(s)
    \/ WriteRunFinished(s)
    \/ EndResponse(s)
    \/ CatchError(s)
    \/ EndAfterError(s)

PairSpec == Init /\ [][PairNext]_vars

----------------------------------------------------------------------------
(* A front end and its server together *)

AppOutcomes ==
  { Rejects(JErr(<<"Connection error.">>)),
    Resolves(Completion(Str("Hello"), JUndef)),
    Resolves(Completion(JNull, JArr(<<FunctionCall("show_chart", ChartArgs)>>))),
    Resolves(Completion(Str("Hello"), JArr(<<FunctionCall("render_custom_ui", SpecArgs)>>))),
    Resolves(Completion(JNull, JArr(<<CustomCall>>))) }

AppInit == Start /\ app \in Apps

AppProvider(s) == ProviderCall(s, AppOutcomes)

AppNext ==
  \/ \E t \in Inputs : SetInput(t)
  \/ SendMessage
  \/ \E r \in 1..Len(runs) : Fetch(r)
  \/ \E r \in 1..Len(runs) : FetchFails(r)
  \/ \E r \in 1..Len(runs) : Read(r)
  \/ \E r \in 1..Len(runs) : StreamEnd(r)
  \/ \E s \in Sessions :
       \/ Prepare(s)
       \/ AppProvider(s)
       \/ TakeMessage(s)
       \/ WriteTextStart(s)
       \/ EnterToolLoop(s)
       \/ ToolCallStart(s)
       \/ ToolCallArgs(s)
       \/ ToolCallEnd(s)
       \/ WriteTextContent(s)
       \/ WriteTextEnd(s)
       \/ EnterSpecLoop(s)
       \/ EmitSpec(s)
       \/ WriteRunFinished(s)
       \/ EndResponse(s)
       \/ CatchError(s)
       \/ EndAfterError(s)

AppSpec == AppInit /\ [][AppNext]_vars

----------------------------------------------------------------------------
(* A conversation of several messages; every chunk ends at a line feed *)

SendNext == SendUpTo(MaxSends)
FetchNext(r) == FetchIn(r, AppSessions)
ReadLines(r) == ReadUpTo(r, 0)

ConvNext ==
  \/ \E t \in Inputs : SetInput(t)
  \/ SendNext
  \/ \E r \in 1..Len(runs) : FetchNext(r)
  \/ \E r \in 1..Len(runs) : FetchFails(r)
  \/ \E r \in 1..Len(runs) : ReadLines(r)
  \/ \E r \in 1..Len(runs) : StreamEnd(r)
  \/ \E s \in AppSessions :
       \/ Prepare(s)
       \/ AppProvider(s)
       \/ TakeMessage(s)
       \/ WriteTextStart(s)
       \/ EnterToolLoop(s)
       \/ ToolCallStart(s)
       \/ ToolCallArgs(s)
       \/ ToolCallEnd(s)
       \/ WriteTextContent(s)
       \/ WriteTextEnd(s)
       \/ EnterSpecLoop(s)
       \/ EmitSpec(s)
       \/ WriteRunFinished(s)
       \/ EndResponse(s)
       \/ CatchError(s)
       \/ EndAfterError(s)

ConvSpec == AppInit /\ [][ConvNext]_vars

----------------------------------------------------------------------------
(* A front end reading the response of some other AG-UI server           *)
(* (what `response.body` may carry is not limited to what server.ts      *)
(* writes: deltas of any size, broken arguments, frames that are no      *)
(* event)                                                                *)

\* one frame of the stream, with the text t as its payload
Frame(t) == DataPrefix \o t \o <<NL, NL>>

RECURSIVE Concat(_)
Concat(frames) == IF frames = <<>> THEN <<>> ELSE Head(frames) \o Concat(Tail(frames))

\* payloads that are no event: cut-off JSON, a type no client knows, null
NotJson == <<"{", Q, "type", Q, ":">>
UnknownType == Stringify(JObj(<<P("type", Str("custom.event")), P("delta", Str("x"))>>))
NullPayload == <<"null">>
BadFrames == {Frame(NotJson), Frame(UnknownType)}

\* the argument text of a tool call, and the places where a server may cut it
\* into deltas (after `{"a":1,` for two deltas, after `{"a"` and `,"b"` for three)
WholeArgs == Stringify(JObj(<<P("a", JNum(1)), P("b", JNum(2))>>))
ArgCuts == {<<>>, <<7>>, <<4, 9>>}
Pieces(t, cuts) ==
  [k \in 1..(Len(cuts) + 1) |->
     SubSeq(t, IF k = 1 THEN 1 ELSE cuts[k - 1] + 1,
               IF k > Len(cuts) THEN Len(t) ELSE cuts[k])]

\* the frames of one tool call whose arguments go out as the given deltas
CallFrames(id, name, deltas) ==
  <<EncodeSSE(JObj(<<P("type", Str(TOOL_CALL_START)), P("toolCallId", Str(id)),
                     P("toolCallName", Str(name))>>))>>
  \o [k \in 1..Len(deltas) |->
        EncodeSSE(JObj(<<P("type", Str(TOOL_CALL_ARGS)), P("toolCallId", Str(id)),
                         P("delta", JStr(deltas[k]))>>))]
  \o <<EncodeSSE(JObj(<<P("type", Str(TOOL_CALL_END)), P("toolCallId", Str(id))>>))>>

\* argument deltas that do not add up to JSON: the text cut short, and none
BrokenDeltas == {<<SubSeq(WholeArgs, 1, 7)>>, <<>>}

FinishedFrames == <<EncodeSSE(JObj(<<P("type", Str(RUN_FINISHED))>>))>>

\* a whole text message, and one more delta of text
AguiText ==
  <<EncodeSSE(JObj(<<P("type", Str(TEXT_MESSAGE_START)), P("messageId", Str("m-1"))>>)),
    EncodeSSE(JObj(<<P("type", Str(TEXT_MESSAGE_CONTENT)), P("messageId", Str("m-1")),
                     P("delta", Str("Hello"))>>)),
    EncodeSSE(JObj(<<P("type", Str(TEXT_MESSAGE_END)), P("messageId", Str("m-1"))>>))>>

AguiMore ==
  <<EncodeSSE(JObj(<<P("type", Str(TEXT_MESSAGE_CONTENT)), P("messageId", Str("m-1")),
                     P("delta", Str(" world"))>>))>>

AguiSegments ==
  {AguiText, AguiMore, FinishedFrames}
  \cup {CallFrames("tc-1", "show_chart", Pieces(WholeArgs, c)) : c \in ArgCuts}
  \cup {CallFrames("tc-2", "show_chart", d) : d \in BrokenDeltas}

A2uiText ==
  <<EncodeSSE(JObj(<<P("type", Str("text.message.start")), P("messageId", Str("m-1"))>>)),
    EncodeSSE(JObj(<<P("type", Str("text.message.content")), P("messageId", Str("m-1")),
                     P("content", Str("Hello"))>>)),
    EncodeSSE(JObj(<<P("type", Str("text.message.end")), P("messageId", Str("m-1"))>>))>>

A2uiSegments ==
  { A2uiText,
    <<EncodeSSE(JObj(<<P("type", Str(UI_SPEC)), P("specId", Str("spec-1")),
                       P("specification", CardSpec)>>))>>,
    FinishedFrames }

\* a frame that is no event, put before the last frame of a segment (while the
\* message or the tool call of the segment is open)
Corrupted(seg, bad) == SubSeq(seg, 1, Len(seg) - 1) \o <<bad, seg[Len(seg)]>>

\* what the server may write in one go
Segments(a) ==
  LET whole == IF a = "agui" THEN AguiSegments ELSE A2uiSegments
  IN whole
     \cup {Corrupted(seg, bad) : seg \in {w \in whole : Len(w) > 1}, bad \in BadFrames}
     \cup {<<bad>> : bad \in BadFrames \cup {Frame(NullPayload)}}

MaxSegments == 2

\* fetch resolves with the response of that server
FetchStubIn(r, sessions) ==
  /\ runs[r].pc = "fetch"
  /\ \E s \in sessions :
       /\ sess[s].pc = "idle"
       /\ \A t \in sessions : t < s => sess[t].pc # "idle"
       /\ sess' = [sess EXCEPT ![s].pc = "stub", ![s].handler = app,
                                ![s].body = Received(runs[r].body)]
       /\ runs' = [runs EXCEPT ![r].pc = "reading", ![r].session = s]
  /\ UNCHANGED <<uuid, messages, input, isLoading, app, splits, renderVars>>

FetchStub(r) == FetchStubIn(r, Sessions)

\* the server writes the frames of one segment
StubWrite(s, seg) ==
  /\ sess[s].pc = "stub"
  /\ sess[s].i < MaxSegments
  /\ sess' = [sess EXCEPT ![s].wire = @ \o Concat(seg), ![s].i = @ + 1]
  /\ UNCHANGED <<uuid, clientVars, renderVars>>

\* the server ends the response
StubEnd(s) ==
  /\ sess[s].pc = "stub"
  /\ sess' = [sess EXCEPT ![s].ended = @ + 1, ![s].pc = "done"]
  /\ UNCHANGED <<uuid, clientVars, renderVars>>

ReaderNext ==
  \/ \E t \in Inputs : SetInput(t)
  \/ SendMessage
  \/ \E r \in 1..Len(runs) : FetchStub(r)
  \/ \E r \in 1..Len(runs) : ReadLines(r)
  \/ \E r \in 1..Len(runs) : StreamEnd(r)
  \/ \E s \in Sessions : \E seg \in Segments(app) : StubWrite(s, seg)
  \/ \E s \in Sessions : StubEnd(s)

ReaderSpec == AppInit /\ [][ReaderNext]_vars

----------------------------------------------------------------------------
(* Two messages sent to such a server: the read loop of the first may still *)
(* be active when the second starts                                       *)

OverlapSegments(a) ==
  IF a = "agui" THEN {AguiText, AguiMore, FinishedFrames} ELSE {A2uiText, FinishedFrames}

FetchStubNext(r) == FetchStubIn(r, AppSessions)

OverlapNext ==
  \/ \E t \in Inputs : SetInput(t)
  \/ SendNext
  \/ \E r \in 1..Len(runs) : FetchStubNext(r)
  \/ \E r \in 1..Len(runs) : ReadLines(r)
  \/ \E r \in 1..Len(runs) : StreamEnd(r)
  \/ \E s \in AppSessions : \E seg \in OverlapSegments(app) : StubWrite(s, seg)
  \/ \E s \in AppSessions : StubEnd(s)

OverlapSpec == AppInit /\ [][OverlapNext]_vars

-----------------------------------------------------------------------------
(* A front end whose connection to such a server may be lost *)

\* a read that fails without anything being shown: the loading flag is
\* cleared and nothing is appended
ReadFailsSilent(r) ==
  /\ runs[r].pc = "reading"
  /\ runs' = [runs EXCEPT ![r].pc = "failed"]
  /\ isLoading' = FALSE
  /\ UNCHANGED <<sess, uuid, messages, input, app, splits, renderVars>>

\* reader.read() rejects (the connection is lost while the response is read):
\* the outer catch block, and the finally block of the A2UI client
ReadFails(r) ==
  /\ runs[r].pc = "reading"
  /\ runs' = [runs EXCEPT ![r].pc = "failed"]
  /\ messages' = Append(messages, FailureEntry(app, uuid + 1))
  /\ uuid' = uuid + 1
  /\ isLoading' = FALSE
  /\ UNCHANGED <<sess, input, app, splits, renderVars>>

LossNext ==
  \/ \E t \in Inputs : SetInput(t)
  \/ SendMessage
  \/ \E r \in 1..Len(runs) : FetchStub(r)
  \/ \E r \in 1..Len(runs) : FetchFails(r)
  \/ \E r \in 1..Len(runs) : ReadLines(r)
  \/ \E r \in 1..Len(runs) : ReadFails(r)
  \/ \E r \in 1..Len(runs) : StreamEnd(r)
  \/ \E s \in Sessions : \E seg \in OverlapSegments(app) : StubWrite(s, seg)
  \/ \E s \in Sessions : StubEnd(s)

LossSpec == AppInit /\ [][LossNext]_vars

\* the server, the network and the reader go on as long as they can
FairLossSpec == LossSpec /\ WF_vars(LossNext)

-----------------------------------------------------------------------------
(* Frames of every event kind, written by encodeSSE and read by a front end *)

\* texts an event may carry: plain, with quotes and a backslash, with a line feed
PayloadTexts == {<<"Hello">>, <<"say ", Q, "hi", Q, " ", BS>>, <<"a", NL, "b">>}

\* a specification with every kind of JSON value in it
DeepSpec ==
  JObj(<<P("component", Str("list")),
         P("props", JObj(<<P("items", JArr(<<JStr(<<"a", NL, Q>>), JNum(2), JBool(TRUE), JNull>>)),
                           P("ordered", JBool(FALSE))>>))>>)

\* events of the ten kinds of the vocabulary
Events ==
  { JObj(<<P("type", Str(RUN_STARTED)), P("threadId", Str("t-1")), P("runId", Str("r-1"))>>),
    JObj(<<P("type", Str(RUN_FINISHED)), P("threadId", Str("t-1")), P("runId", Str("r-1"))>>),
    JObj(<<P("type", Str(TEXT_MESSAGE_START)), P("messageId", Str("m-1")),
           P("role", Str("assistant"))>>),
    JObj(<<P("type", Str(TEXT_MESSAGE_END)), P("messageId", Str("m-1"))>>),
    JObj(<<P("type", Str(TOOL_CALL_START)), P("toolCallId", Str("tc-1")),
           P("toolCallName", Str("show_chart")), P("parentMessageId", Str("m-1"))>>),
    JObj(<<P("type", Str(TOOL_CALL_END)), P("toolCallId", Str("tc-1"))>>),
    JObj(<<P("type", Str(UI_SPEC)), P("specId", Str("spec-1")), P("specification", CardSpec)>>),
    JObj(<<P("type", Str(UI_SPEC)), P("specId", Str("spec-2")), P("specification", DeepSpec)>>) }
    \cup {JObj(<<P("type", Str(RUN_ERROR)), P("message", JStr(t)),
                 P("code", Str("INTERNAL_ERROR"))>>) : t \in PayloadTexts}
    \cup {JObj(<<P("type", Str(TEXT_MESSAGE_CONTENT)), P("messageId", Str("m-1")),
                 P("delta", JStr(t))>>) : t \in PayloadTexts}
    \cup {JObj(<<P("type", Str(TOOL_CALL_ARGS)), P("toolCallId", Str("tc-1")),
                 P("delta", JStr(t))>>) : t \in PayloadTexts}

\* res.write(encodeSSE(event))
StubEmit(s, event) ==
  /\ sess[s].pc = "stub"
  /\ sess[s].i < MaxSegments
  /\ sess' = [sess EXCEPT ![s] = [Write(sess[s], event) EXCEPT !.i = @ + 1]]
  /\ UNCHANGED <<uuid, clientVars, renderVars>>

CodecNext ==
  \/ \E t \in Inputs : SetInput(t)
  \/ SendMessage
  \/ \E r \in 1..Len(runs) : FetchStub(r)
  \/ \E r \in 1..Len(runs) : ReadLines(r)
  \/ \E r \in 1..Len(runs) : StreamEnd(r)
  \/ \E s \in Sessions : \E e \in Events : StubEmit(s, e)
  \/ \E s \in Sessions : StubEnd(s)

CodecSpec == AppInit /\ [][CodecNext]_vars

-----------------------------------------------------------------------------
(* Tool call events of two tool calls, in any order *)

ToolCallIds == {"tc-1", "tc-2"}

\* one frame each: the start, the whole arguments and the end of a tool call
MixSegments ==
  UNION { { <<EncodeSSE(JObj(<<P("type", Str(TOOL_CALL_START)), P("toolCallId", Str(id)),
                               P("toolCallName", Str("show_chart"))>>))>>,
            <<EncodeSSE(JObj(<<P("type", Str(TOOL_CALL_ARGS)), P("toolCallId", Str(id)),
                               P("delta", JStr(WholeArgs))>>))>>,
            <<EncodeSSE(JObj(<<P("type", Str(TOOL_CALL_END)), P("toolCallId", Str(id))>>))>> }
          : id \in ToolCallIds }

MixNext ==
  \/ \E t \in Inputs : SetInput(t)
  \/ SendMessage
  \/ \E r \in 1..Len(runs) : FetchStub(r)
  \/ \E r \in 1..Len(runs) : ReadLines(r)
  \/ \E r \in 1..Len(runs) : StreamEnd(r)
  \/ \E s \in Sessions : \E seg \in MixSegments : StubWrite(s, seg)
  \/ \E s \in Sessions : StubEnd(s)

MixSpec == AppInit /\ [][MixNext]_vars

----------------------------------------------------------------------------
(* The interpreter on its own *)

RenderNext == (\E sp \in Specs : Mount(sp)) \/ Unmount

RenderSpec == Init /\ [][RenderNext]_vars

-----------------------------------------------------------------------------
(* The presentation of a tool call in the AGUI conversation *)

\* the names of the server's tools array, in its order
tools ==
  <<"show_chart", "show_weather_card", "show_task_list", "show_card_grid",
    "show_progress_tracker">>

\* <Component {...toolArgs} />: the own members of toolArgs become the props
Spread(toolArgs) == IF toolArgs.k = "obj" THEN toolArgs ELSE JObj(<<>>)

\* the switch without its last case
DynamicUIComponentShort(toolName, toolArgs) ==
  CASE toolName = Str("show_chart") ->
         Show(Element("ChartComponent", <<>>), <<Spread(toolArgs)>>)
    [] toolName = Str("show_weather_card") ->
         Show(Element("WeatherCard", <<>>), <<Spread(toolArgs)>>)
    [] toolName = Str("show_task_list") ->
         Show(Element("TaskList", <<>>), <<Spread(toolArgs)>>)
    [] toolName = Str("show_card_grid") ->
         Show(Element("CardGrid", <<>>), <<Spread(toolArgs)>>)
    [] OTHER -> Show(Placeholder("unknown tool"), <<toolName>>)

\* switch (toolName): one component for each case, and the 'Unknown tool'
\* block with the name for any other value
DynamicUIComponent(toolName, toolArgs) ==
  CASE toolName = Str("show_chart") ->
         Show(Element("ChartComponent", <<>>), <<Spread(toolArgs)>>)
    [] toolName = Str("show_weather_card") ->
         Show(Element("WeatherCard", <<>>), <<Spread(toolArgs)>>)
    [] toolName = Str("show_task_list") ->
         Show(Element("TaskList", <<>>), <<Spread(toolArgs)>>)
    [] toolName = Str("show_card_grid") ->
         Show(Element("CardGrid", <<>>), <<Spread(toolArgs)>>)
    [] toolName = Str("show_progress_tracker") ->
         Show(Element("ProgressTracker", <<>>), <<Spread(toolArgs)>>)
    [] OTHER -> Show(Placeholder("unknown tool"), <<toolName>>)

\* names a tool entry may carry: those of the catalog, the A2UI tool, near
\* misses, and values that are no string
ToolNames ==
  {Str(tools[i]) : i \in 1..Len(tools)}
    \cup { Str("render_custom_ui"), Str("show_table"), Str("Show_Chart"), Str("show_chart "),
           Str(""), Str("constructor"), JUndef, JNull, JNum(1) }

\* arguments a tool entry may carry
ToolArgs ==
  { JUndef, JNull, JObj(<<>>),
    JObj(<<P("title", Str("Sales"))>>),
    JObj(<<P("title", Str("Sales")), P("type", Str("bar"))>>),
    JObj(<<P("city", Str("Paris"))>>),
    JObj(<<P("tasks", JArr(<<>>))>>),
    JObj(<<P("cards", JArr(<<>>))>>),
    JObj(<<P("steps", JArr(<<>>))>>) }

\* <DynamicUIComponent toolName={...} toolArgs={...} /> is rendered
ShowTool(toolName, toolArgs) ==
  /\ view = NoView
  /\ spec' = JObj(<<P("toolName", toolName), P("toolArgs", toolArgs)>>)
  /\ view' = DynamicUIComponent(toolName, toolArgs)
  /\ UNCHANGED <<sess, uuid, clientVars>>

ToolNext == (\E n \in ToolNames, a \in ToolArgs : ShowTool(n, a)) \/ Unmount

ToolSpec == Init /\ [][ToolNext]_vars

----------------------------------------------------------------------------
(* Claims about the stream session *)

IsTerminal(e) == IsType(e, RUN_FINISHED) \/ IsType(e, RUN_ERROR)
Indices(out, t) == {i \in 1..Len(out) : IsType(out[i], t)}
TerminalIndices(out) == {i \in 1..Len(out) : IsTerminal(out[i])}

TerminalOnce(s) ==
  LET out == sess[s].out
      T == TerminalIndices(out)
  IN /\ Cardinality(T) <= 1
     /\ \A i \in T : i = Len(out)
     /\ sess[s].ended <= 1
     /\ sess[s].ended = 1 => Cardinality(T) = 1 /\ sess[s].pc = "done"
     /\ sess[s].pc = "done" => Cardinality(T) = 1 /\ sess[s].ended = 1

\* C1: in every run of the AGUI and of the A2UI handler, whatever the provider
\* returns or throws, at most one terminal event (run.finished or run.error) is
\* ever written, nothing is written after it, the response is ended only after
\* it and at most once; and every run that has started comes to its end, where
\* it has written exactly one terminal event and ended the response exactly once.
C1_ExactlyOneTerminal ==
  \A s \in Sessions :
    /\ [] TerminalOnce(s)
    /\ [] (sess[s].pc # "idle" => <> (sess[s].pc = "done"))

\* a run that failed after it had opened a text message, now done
C1_Witness ==
  \E s \in Sessions :
    /\ sess[s].pc = "done"
    /\ sess[s].ended = 1
    /\ Len(sess[s].out) >= 3
    /\ IsType(sess[s].out[Len(sess[s].out)], RUN_ERROR)

\* C3 (as claimed): once the terminal event is written, each text_message.start
\* has exactly one later text_message.end with its messageId and each
\* tool_call.start exactly one later tool_call.end with its toolCallId, both
\* before the terminal event.
C3_MatchedPairs ==
  \A s \in Sessions :
    LET out == sess[s].out
        Closed(i, endType, idKey) ==
          Cardinality({j \in Indices(out, endType) :
                         /\ j > i
                         /\ j < Len(out)
                         /\ Get(out[j], idKey) = Get(out[i], idKey)}) = 1
    IN TerminalIndices(out) # {} =>
         /\ \A i \in Indices(out, TEXT_MESSAGE_START) : Closed(i, TEXT_MESSAGE_END, "messageId")
         /\ \A i \in Indices(out, TOOL_CALL_START) : Closed(i, TOOL_CALL_END, "toolCallId")

\* C9 (as claimed): every ui.spec event written has specification.version "1.0".
C9_VersionTag ==
  \A s \in Sessions :
    \A i \in Indices(sess[s].out, UI_SPEC) :
      Get(Get(sess[s].out[i], "specification"), "version") = Str("1.0")

\* C10: when the provider call rejects, the events written are run.started and
\* then, from the catch block on, exactly one run.error with code
\* INTERNAL_ERROR and a string message; nothing else is written, and the
\* response of the finished run has been ended once.
C10_ProviderFailure ==
  \A s \in Sessions :
    sess[s].settled = "rejected" =>
      LET out == sess[s].out IN
        /\ sess[s].pc \in {"catch", "endError", "done"}
        /\ Len(out) >= 1 /\ IsType(out[1], RUN_STARTED)
        /\ sess[s].pc = "catch" => Len(out) = 1
        /\ sess[s].pc \in {"endError", "done"} =>
             /\ Len(out) = 2
             /\ IsType(out[2], RUN_ERROR)
             /\ Get(out[2], "code") = Str("INTERNAL_ERROR")
             /\ Get(out[2], "message").k = "str"
        /\ sess[s].pc = "done" <=> sess[s].ended = 1

\* the provider rejected with a value that is not an Error, and the run is done
C10_Witness ==
  \E s \in Sessions :
    /\ sess[s].settled = "rejected"
    /\ sess[s].thrown.k # "err"
    /\ sess[s].pc = "done"
    /\ sess[s].ended = 1

----------------------------------------------------------------------------
(* Claims about the stream readers and accumulators *)

Last(q) == q[Len(q)]

Contains(t, sub) ==
  \E i \in 0..(Len(t) - Len(sub)) : SubSeq(t, i + 1, i + Len(sub)) = sub

\* entries compared apart from the random id of an entry the client made itself
SameEntries(a, b) ==
  /\ Len(a) = Len(b)
  /\ \A i \in 1..Len(a) :
       IF a[i].isError THEN [a[i] EXCEPT !.id = JUndef] = [b[i] EXCEPT !.id = JUndef]
       ELSE a[i] = b[i]

\* the whole response given to the read loop as one chunk
WholeStream(a, run) ==
  ProcessChunk(a, ReaderState(run.sent, TRUE, 0), sess[run.session].wire)

\* C2 (as claimed): when a run has read its response to the end, in whatever
\* chunks the bytes came, the conversation (tool-call entries included) and the
\* loading flag are what they are after reading the same bytes as one chunk.
C2_ChunkIndependence ==
  \A r \in 1..Len(runs) :
    (r = Len(runs) /\ runs[r].pc = "done") =>
      \E whole \in {WholeStream(app, runs[r])} :
        /\ SameEntries(messages, whole.messages)
        /\ isLoading = AfterLoop(app, whole.isLoading)

\* C6 (as claimed): while a run reads its response, the step in which the read
\* loop finds the stream closed leaves the loading flag as it is, and a turn of
\* the loop that switches the flag off has processed run.finished or run.error.
C6_LoadingOffOnlyByTerminal ==
  [][\A r \in 1..Len(runs) :
       (runs[r].pc = "reading" /\ runs'[r] # runs[r]) =>
         /\ runs'[r].pc = "done" => isLoading' = isLoading
         /\ (runs'[r].pc = "reading" /\ isLoading /\ ~isLoading') =>
              \E i \in (Len(runs[r].seen) + 1)..Len(runs'[r].seen) :
                IsTerminal(runs'[r].seen[i])]_vars

RECURSIVE Deltas(_)
Deltas(out) ==
  IF out = <<>> THEN <<>>
  ELSE (IF IsType(Head(out), TEXT_MESSAGE_CONTENT) THEN Get(Head(out), "delta").v ELSE <<>>)
         \o Deltas(Tail(out))

\* C7 (as claimed): in the A2UI front end, when a run that finished and sent
\* text has been read to the end and the client has processed every event the
\* handler emitted, the conversation has an assistant entry with the run's
\* messageId whose content is the text deltas in order.
C7_TextReachesConversation ==
  \A r \in 1..Len(runs) :
    LET run == runs[r]
        out == sess[run.session].out
    IN (/\ app = "a2ui"
        /\ run.pc = "done"
        /\ run.seen = out
        /\ IsType(Last(out), RUN_FINISHED)
        /\ Deltas(out) # <<>>) =>
         \E i \in 1..Len(messages) :
           /\ messages[i].role = "assistant"
           /\ messages[i].id = sess[run.session].messageId
           /\ messages[i].content = JStr(Deltas(out))

\* C8 (as claimed): in both front ends, once a run has processed a run.error
\* event, the conversation has gained exactly one entry flagged as an error, the
\* last one, whose content contains the message of the event, and the loading
\* flag is off.
C8_RunErrorSurfaced ==
  \A r \in 1..Len(runs) :
    LET run == runs[r] IN
      (/\ r = Len(runs)
       /\ run.pc = "reading"
       /\ run.seen # <<>>
       /\ IsType(Last(run.seen), RUN_ERROR)) =>
         /\ Cardinality({i \in (Len(run.sent) + 1)..Len(messages) : messages[i].isError}) = 1
         /\ Last(messages).isError
         /\ Last(messages).content.k = "str"
         /\ Contains(Last(messages).content.v, ToStr(Get(Last(run.seen), "message")))
         /\ ~isLoading

----------------------------------------------------------------------------
(* Claims about the interpreter *)

\* C4 (as claimed): whatever JSON value the specification is, with props,
\* children and style present, absent, null or of a wrong type, UIComponent
\* throws at no node of the tree.
C4_NeverThrows == view.k # "throw"

\* C5 (as claimed): however deep container, card and grid children are nested,
\* the view has no node below the configured maximum depth, apart from the
\* truncation placeholder one level further down.
C5_DepthCap == view.k = "element" => Deepest(view) <= MAX_DEPTH + 1

----------------------------------------------------------------------------
(* Claims about the order and content of the events of a run *)

TextTypes == {TEXT_MESSAGE_START, TEXT_MESSAGE_CONTENT, TEXT_MESSAGE_END}
ToolTypes == {TOOL_CALL_START, TOOL_CALL_ARGS, TOOL_CALL_END}
IndicesOf(out, types) == {i \in 1..Len(out) : \E t \in types : IsType(out[i], t)}
Finished(ss) == ss.out # <<>> /\ IsType(Last(ss.out), RUN_FINISHED)

\* C11 (as claimed): in a run that finished, every text_message event comes
\* before every tool_call event: the text message is closed before the first
\* tool call starts and no text_message event follows a tool_call event.
C11_TextBeforeTools ==
  \A s \in Sessions :
    Finished(sess[s]) =>
      \A i \in IndicesOf(sess[s].out, TextTypes), j \in IndicesOf(sess[s].out, ToolTypes) :
        i < j

\* the parentMessageId of the tool call an event belongs to
ParentOf(out, j) ==
  LET starts == {i \in Indices(out, TOOL_CALL_START) :
                   i <= j /\ Get(out[i], "toolCallId") = Get(out[j], "toolCallId")}
  IN IF starts = {} THEN JUndef
     ELSE Get(out[CHOOSE i \in starts : TRUE], "parentMessageId")

Ordered(out, startType, deltaType, endType, idKey) ==
  LET Same(i, j) == Get(out[i], idKey) = Get(out[j], idKey) IN
    /\ \A j \in Indices(out, deltaType) :
         /\ \E i \in Indices(out, startType) : i < j /\ Same(i, j)
         /\ \A k \in Indices(out, endType) : Same(k, j) => j < k
    /\ \A k \in Indices(out, endType) :
         \E i \in Indices(out, startType) : i < k /\ Same(i, k)

\* C13: in every run of either handler, for each messageId and each
\* toolCallId, the start event is written before every content or args delta
\* with that id, and every such delta before the end event with that id.
C13_StartDeltaEnd ==
  \A s \in Sessions :
    /\ Ordered(sess[s].out, TEXT_MESSAGE_START, TEXT_MESSAGE_CONTENT, TEXT_MESSAGE_END, "messageId")
    /\ Ordered(sess[s].out, TOOL_CALL_START, TOOL_CALL_ARGS, TOOL_CALL_END, "toolCallId")

\* a run that has written a text delta and the start, delta and end of two tool calls
C13_Witness ==
  \E s \in Sessions :
    /\ Indices(sess[s].out, TEXT_MESSAGE_CONTENT) # {}
    /\ Cardinality(Indices(sess[s].out, TOOL_CALL_END)) = 2
    /\ Indices(sess[s].out, TEXT_MESSAGE_END) # {}

\* a value uuidv4() has given that the request does not hold
FreshId(v, body) ==
  /\ \E n \in 1..uuid : v = Uuid(n)
  /\ v # Get(body, "threadId")
  /\ v # Get(body, "runId")

\* C14 (as claimed): the first event of a run is run.started, and its threadId
\* and runId are the values of the request when the request has them, fresh
\* ones otherwise.
C14_IdsAsSupplied ==
  \A s \in Sessions :
    LET out == sess[s].out
        body == sess[s].body
    IN out # <<>> =>
         /\ IsType(out[1], RUN_STARTED)
         /\ \A key \in {"threadId", "runId"} :
              IF HasOwn(body, key) THEN Get(out[1], key) = Get(body, key)
              ELSE FreshId(Get(out[1], key), body)

\* C14 (amended): the first event of a run is run.started; its threadId and
\* runId are the values of the request when these are truthy (not empty), and
\* fresh uuids, different from each other, when the request leaves them out or
\* gives a falsy value such as the empty string.
C14_IdsOrFresh ==
  \A s \in Sessions :
    LET out == sess[s].out
        body == sess[s].body
    IN out # <<>> =>
         /\ IsType(out[1], RUN_STARTED)
         /\ \A key \in {"threadId", "runId"} :
              IF Truthy(Get(body, key)) THEN Get(out[1], key) = Get(body, key)
              ELSE FreshId(Get(out[1], key), body)
         /\ (Falsy(Get(body, "threadId")) /\ Falsy(Get(body, "runId"))) =>
              Get(out[1], "threadId") # Get(out[1], "runId")

\* a run started on a request with an empty threadId and a runId of its own
C14_Witness ==
  \E s \in Sessions :
    /\ sess[s].out # <<>>
    /\ Get(sess[s].body, "threadId") = JStr(<<>>)
    /\ Get(sess[s].out[1], "runId") = Str("run-1")

NoToolCalls(message) ==
  LET calls == Get(message, "tool_calls") IN Falsy(calls) \/ calls = JArr(<<>>)

\* C15: in the AGUI handler, a completion with no tool call and with empty or
\* absent content gives, once the text message is closed, exactly one
\* text_message.content event, whose delta is a string that is not empty,
\* between text_message.start and text_message.end; and a run that finished has
\* closed its text message.
C15_DefaultTextDelta ==
  \A s \in Sessions :
    LET out == sess[s].out
        message == sess[s].assistantMessage
    IN (/\ sess[s].handler = "agui"
        /\ CanRead(message)
        /\ NoToolCalls(message)
        /\ Falsy(Get(message, "content"))) =>
         /\ Finished(sess[s]) => Indices(out, TEXT_MESSAGE_END) # {}
         /\ Indices(out, TEXT_MESSAGE_END) # {} =>
              /\ Cardinality(Indices(out, TEXT_MESSAGE_CONTENT)) = 1
              /\ \A j \in Indices(out, TEXT_MESSAGE_CONTENT) :
                   /\ Get(out[j], "delta").k = "str"
                   /\ Get(out[j], "delta").v # <<>>
                   /\ \E i \in Indices(out, TEXT_MESSAGE_START) : i < j
                   /\ \A k \in Indices(out, TEXT_MESSAGE_END) : j < k

\* an AGUI run that finished on a completion with empty content and no tool call
C15_Witness ==
  \E s \in Sessions :
    /\ sess[s].handler = "agui"
    /\ Finished(sess[s])
    /\ NoToolCalls(sess[s].assistantMessage)
    /\ Get(sess[s].assistantMessage, "content") = JStr(<<>>)

\* C16 (as claimed): an A2UI run that finished has written at most one ui.spec
\* event and no tool_call event.
C16_AtMostOneSpec ==
  \A s \in Sessions :
    (sess[s].handler = "a2ui" /\ Finished(sess[s])) =>
      /\ Cardinality(Indices(sess[s].out, UI_SPEC)) <= 1
      /\ IndicesOf(sess[s].out, ToolTypes) = {}

IsRenderCall(toolCall) ==
  HasOwn(toolCall, "function")
    /\ Get(Get(toolCall, "function"), "name") = Str("render_custom_ui")
IsUiSpec(e) == IsType(e, UI_SPEC)

\* C16 (amended): an A2UI run that finished has written one ui.spec event for
\* each render_custom_ui call of the completion, in their order, each with
\* every field of the specification of its call (the whole tree in one event),
\* and no tool_call event, whatever tool calls the completion holds.
C16_OneSpecPerRenderCall ==
  \A s \in Sessions :
    (sess[s].handler = "a2ui" /\ Finished(sess[s])) =>
      LET calls == Get(sess[s].assistantMessage, "tool_calls")
          render == IF calls.k = "arr" THEN SelectSeq(calls.v, IsRenderCall) ELSE <<>>
          specs == SelectSeq(sess[s].out, IsUiSpec)
      IN /\ Len(specs) = Len(render)
         /\ \A n \in 1..Len(specs) :
              LET args == JsonParseValue(Get(Get(render[n], "function"), "arguments"))
                  given == SpreadEntries(Get(args.val, "specification"))
              IN /\ args.ok
                 /\ \A m \in 1..Len(given) :
                      Get(Get(specs[n], "specification"), given[m].key[1]) = given[m].val
         /\ IndicesOf(sess[s].out, ToolTypes) = {}

\* an A2UI run that finished with two ui.spec events
C16_Witness ==
  \E s \in Sessions :
    /\ sess[s].handler = "a2ui"
    /\ Finished(sess[s])
    /\ Cardinality(Indices(sess[s].out, UI_SPEC)) = 2

----------------------------------------------------------------------------
(* Claims about the history given to the provider *)

\* an entry that shows a rendered component: a tool call, a specification
NotArtifact(e) == e.role # "tool" /\ Falsy(e.uiSpec)

AsChatMessage(e) == Received(JObj(<<P("role", Str(e.role)), P("content", e.content)>>))

\* C17 (as claimed): the messages a handler gives to the provider are the
\* system prompt and then, in their order, the entries of the conversation that
\* show no rendered component; no message stands for a tool-call entry or a
\* ui.spec entry.
C17_HistoryWithoutArtifacts ==
  \A r \in 1..Len(runs) :
    (runs[r].session # 0 /\ sess[runs[r].session].sent # JUndef) =>
      LET kept == SelectSeq(runs[r].sent, NotArtifact) IN
        sess[runs[r].session].sent =
          JArr(<<SystemMessage(app)>> \o [i \in 1..Len(kept) |-> AsChatMessage(kept[i])])

----------------------------------------------------------------------------
(* Claims about frames that are no event and about tool-call arguments *)

\* the event types a client has a case for
Recognized(a) ==
  IF a = "agui"
  THEN {"text_message.start", "text_message.content", "tool_call.start",
        "tool_call.args", "tool_call.end", "run.finished", "run.error"}
  ELSE {"text.message.start", "text.message.content", "text.message.end",
        "ui.spec", "run.finished", "run.error"}

\* the line is a frame
IsFrame(line) == StartsWith(line, DataPrefix)

\* the frame carries no JSON
BadJson(line) == IsFrame(line) /\ ~JsonParse(Slice(line, 6)).ok

\* the frame carries JSON, of no type the client knows
BadType(a, line) ==
  /\ IsFrame(line)
  /\ \E parsed \in {JsonParse(Slice(line, 6))} :
       /\ parsed.ok
       /\ \/ ~CanRead(parsed.val)
          \/ Get(parsed.val, "type") \notin {Str(t) : t \in Recognized(a)}

\* the lines run r has read
LinesRead(r) == SplitLines(SubSeq(sess[runs[r].session].wire, 1, runs[r].pos))

\* conversation, accumulation state and loading flag
Visible(st) ==
  [messages |-> st.messages, isLoading |-> st.isLoading,
   currentMessageId |-> st.currentMessageId,
   currentMessageContent |-> st.currentMessageContent,
   currentToolCall |-> st.currentToolCall]

\* run r reads a chunk in this step
ReadStep(r) ==
  /\ runs[r].pc = "reading"
  /\ Len(runs') = Len(runs)
  /\ runs'[r].pos > runs[r].pos

\* the lines of that chunk
ChunkLines(r) ==
  SplitLines(SubSeq(sess[runs[r].session].wire, runs[r].pos + 1, runs'[r].pos))

\* conversation, accumulation state and loading flag after the step
VisibleAfter(r) ==
  [messages |-> messages', isLoading |-> isLoading',
   currentMessageId |-> runs'[r].currentMessageId,
   currentMessageContent |-> runs'[r].currentMessageContent,
   currentToolCall |-> runs'[r].currentToolCall]

\* C18: in both clients, a frame whose payload is no JSON or whose type the
\* client has no case for is skipped: a chunk leaves the conversation, the
\* accumulation state and the loading flag as its other frames alone would have
\* left them, and every frame of the chunk that carries JSON is given to the
\* switch.
C18_BadFramesSkipped ==
  [][\A r \in 1..Len(runs) :
       ReadStep(r) =>
         LET Good(l) == ~BadJson(l) /\ ~BadType(app, l)
             Parses(l) == IsFrame(l) /\ ~BadJson(l) /\ Slice(l, 6) # NullPayload
         IN \A lines \in {ChunkLines(r)} :
              \A good \in {SelectSeq(lines, Good)}, before \in {StateOf(runs[r])} :
                /\ VisibleAfter(r) = Visible(ProcessLines(app, before, good))
                /\ Len(runs'[r].seen) =
                     Len(runs[r].seen) + Len(SelectSeq(lines, Parses))]_vars

\* a run has read an event, then a frame that carries no JSON, then another
\* event, and the conversation has grown
C18_Witness ==
  \E r \in 1..Len(runs) :
    /\ runs[r].pc = "reading"
    /\ \E lines \in {LinesRead(r)} :
         \E i, j, k \in 1..Len(lines) :
           /\ i < j /\ j < k
           /\ BadJson(lines[j])
           /\ IsFrame(lines[i]) /\ ~BadJson(lines[i]) /\ ~BadType(app, lines[i])
           /\ IsFrame(lines[k]) /\ ~BadJson(lines[k]) /\ ~BadType(app, lines[k])
    /\ Len(messages) > Len(runs[r].sent)

\* the events of evs after the i-th and before the j-th
Between(evs, i, j) == SubSeq(evs, i + 1, j - 1)

IsToolStart(e) == Get(e, "type") = Str(TOOL_CALL_START)
IsToolArgs(e) == Get(e, "type") = Str(TOOL_CALL_ARGS)
IsToolEnd(e) == Get(e, "type") = Str(TOOL_CALL_END)
OpensOrCloses(e) == IsToolStart(e) \/ IsToolEnd(e)

\* the tool calls among the events: <<i, j>> for a tool_call.start at i whose
\* tool_call.end is at j
ToolCallsIn(evs) ==
  {c \in (1..Len(evs)) \X (1..Len(evs)) :
     /\ c[1] < c[2]
     /\ IsToolStart(evs[c[1]]) /\ IsToolEnd(evs[c[2]])
     /\ SelectSeq(Between(evs, c[1], c[2]), OpensOrCloses) = <<>>}

\* the deltas of tool call c, in the order of their arrival, and their texts
\* one after the other
DeltasOf(evs, c) == SelectSeq(Between(evs, c[1], c[2]), IsToolArgs)

RECURSIVE ConcatDeltas(_)
ConcatDeltas(ds) ==
  IF ds = <<>> THEN <<>> ELSE Get(Head(ds), "delta").v \o ConcatDeltas(Tail(ds))

ArgsOf(evs, c) == ConcatDeltas(DeltasOf(evs, c))

\* the k-th of the tool calls of S, in the order of their ends
NthCall(S, k) == CHOOSE c \in S : Cardinality({d \in S : d[2] < c[2]}) = k - 1

IsToolEntry(m) == m.role = "tool"

\* the tool calls of run r that come to their end in this step
EndingNow(r, S) == {c \in S : c[2] > Len(runs[r].seen)}

\* C19: in the AGUI client a chunk appends to the entries with role 'tool', in
\* order, one entry for each tool call that ends in it and whose deltas (one or
\* more, between its tool_call.start and its tool_call.end, in this chunk or in
\* earlier ones) add up to JSON: id and name of the tool call, and as toolArgs
\* the JSON parse of the deltas put together in the order of arrival. The entry
\* depends on the deltas through their concatenation alone, so it is the one a
\* single delta with the whole text gives.
C19_ArgsReassembled ==
  [][\A r \in 1..Len(runs) :
       (app = "agui" /\ ReadStep(r)) =>
         \A evs \in {runs'[r].seen} :
           \A calls \in {EndingNow(r, {c \in ToolCallsIn(evs) : JsonParse(ArgsOf(evs, c)).ok})} :
             LET Expected(c) ==
                   [Entry(Get(evs[c[1]], "toolCallId"), "tool") EXCEPT
                      !.toolName = Get(evs[c[1]], "toolCallName"),
                      !.toolArgs = JsonParse(ArgsOf(evs, c)).val]
             IN SelectSeq(messages', IsToolEntry) =
                  SelectSeq(messages, IsToolEntry)
                    \o [k \in 1..Cardinality(calls) |-> Expected(NthCall(calls, k))]]_vars

\* the arguments {"a":1,"b":2} of the one tool call of a run have arrived in
\* three deltas and the entry of the tool call shows them parsed
C19_Witness ==
  /\ app = "agui"
  /\ \E r \in 1..Len(runs) :
       \E c \in ToolCallsIn(runs[r].seen) :
         /\ ToolCallsIn(runs[r].seen) = {c}
         /\ Len(DeltasOf(runs[r].seen, c)) = 3
  /\ \E k \in 1..Len(messages) :
       /\ messages[k].role = "tool"
       /\ messages[k].id = Str("tc-1")
       /\ messages[k].toolArgs = JObj(<<P("a", JNum(1)), P("b", JNum(2))>>)

\* the tool calls among the events whose deltas do not add up to JSON
BrokenCallsIn(evs) == {c \in ToolCallsIn(evs) : ~JsonParse(ArgsOf(evs, c)).ok}

\* the events at the indices I, in their order
EventsAt(evs, I) ==
  [k \in 1..Cardinality(I) |->
     evs[CHOOSE i \in I : Cardinality({j \in I : j < i}) = k - 1]]

RECURSIVE ApplyEvents(_, _)
ApplyEvents(st, evs) ==
  IF evs = <<>> THEN st ELSE ApplyEvents(AguiEvent(st, Head(evs)), Tail(evs))

\* C20: in the AGUI client a tool call whose accumulated arguments are no JSON
\* at its tool_call.end leaves no entry, no tool call is open after its end, and
\* the events after it are processed as if it had not been there: a chunk in
\* which such tool calls end leaves conversation, accumulation state and loading
\* flag as its events without those tool calls would have left them (from no
\* open tool call, where the broken one was opened by an earlier chunk).
C20_BrokenCallDropped ==
  [][\A r \in 1..Len(runs) :
       (app = "agui" /\ ReadStep(r)) =>
         \A evs \in {runs'[r].seen}, old \in {Len(runs[r].seen)} :
           \A broken \in {BrokenCallsIn(evs)} :
             LET opened == \E c \in broken : c[1] <= old /\ old < c[2]
                 rest == {k \in (old + 1)..Len(evs) :
                            ~\E c \in broken :
                               /\ c[1] <= k /\ k <= c[2]
                               /\ OpensOrCloses(evs[k]) \/ IsToolArgs(evs[k])}
             IN /\ \A c \in EndingNow(r, broken) :
                     /\ \A k \in (Len(messages) + 1)..Len(messages') :
                          messages'[k].id # Get(evs[c[1]], "toolCallId")
                     /\ c[2] = Len(evs) => runs'[r].currentToolCall = NoToolCall
                /\ \A before \in {IF opened
                                   THEN [StateOf(runs[r]) EXCEPT !.currentToolCall = NoToolCall]
                                   ELSE StateOf(runs[r])},
                      events \in {EventsAt(evs, rest)} :
                     VisibleAfter(r) = Visible(ApplyEvents(before, events))]_vars

\* a run has seen a tool call with broken arguments to its end and after it a
\* tool call with sound arguments, whose entry is the only one with role 'tool'
C20_Witness ==
  /\ app = "agui"
  /\ \E r \in 1..Len(runs) :
       \E c \in BrokenCallsIn(runs[r].seen) :
         \E d \in ToolCallsIn(runs[r].seen) \ BrokenCallsIn(runs[r].seen) :
           /\ c[2] < d[1]
           /\ DeltasOf(runs[r].seen, c) # <<>>
  /\ Len(SelectSeq(messages, IsToolEntry)) = 1

----------------------------------------------------------------------------
(* Claims about the accumulation of text *)

IsTextStart(e) == Get(e, "type") = Str(TEXT_MESSAGE_START)
IsTextContent(e) == Get(e, "type") = Str(TEXT_MESSAGE_CONTENT)

\* the index of the last text_message.start among the events, 0 for none
LastTextStart(evs) ==
  IF \E i \in 1..Len(evs) : IsTextStart(evs[i])
  THEN CHOOSE i \in 1..Len(evs) :
         IsTextStart(evs[i]) /\ \A j \in (i + 1)..Len(evs) : ~IsTextStart(evs[j])
  ELSE 0

\* the text of text_message.content events, one after the other
RECURSIVE ConcatText(_)
ConcatText(ds) ==
  IF ds = <<>> THEN <<>> ELSE Get(Head(ds), "delta").v \o ConcatText(Tail(ds))

IsTextEnd(a, e) ==
  Get(e, "type") = Str(IF a = "agui" THEN TEXT_MESSAGE_END ELSE "text.message.end")

\* C22 (as claimed): in both clients, once the end event of a message has been
\* processed, no later chunk of the run changes the content of the entry of
\* that message.
C22_ClosedMessageFixed ==
  [][\A r \in 1..Len(runs) :
       ReadStep(r) =>
         \A j \in 1..Len(runs[r].seen) :
           IsTextEnd(app, runs[r].seen[j]) =>
             \A k \in 1..Len(messages) :
               messages[k].id = Get(runs[r].seen[j], "messageId") =>
                 messages'[k].content = messages[k].content]_vars

IsRunFinished(e) == Get(e, "type") = Str(RUN_FINISHED)
IsTextEvent(e) ==
  Get(e, "type") \in {Str(TEXT_MESSAGE_START), Str(TEXT_MESSAGE_CONTENT), Str(TEXT_MESSAGE_END)}

\* C23: in the AGUI client the chunk in which a tool call with sound arguments
\* comes to its tool_call.end appends the entry of that tool call, whatever
\* text events the run has received, and a chunk that holds run.finished leaves
\* the loading flag cleared, whether or not a text_message.end has arrived.
C23_NoWaitForText ==
  [][\A r \in 1..Len(runs) :
       (app = "agui" /\ ReadStep(r)) =>
         \A evs \in {runs'[r].seen} :
           /\ \A c \in EndingNow(r, ToolCallsIn(evs) \ BrokenCallsIn(evs)) :
                \E k \in (Len(messages) + 1)..Len(messages') :
                  /\ messages'[k].role = "tool"
                  /\ messages'[k].id = Get(evs[c[1]], "toolCallId")
           /\ (\E k \in (Len(runs[r].seen) + 1)..Len(evs) : IsRunFinished(evs[k]))
                => ~isLoading']_vars

\* a run that has received no text event at all shows its tool call and has
\* cleared the loading flag at run.finished
C23_Witness ==
  /\ app = "agui"
  /\ ~isLoading
  /\ \E r \in 1..Len(runs) :
       /\ SelectSeq(runs[r].seen, IsTextEvent) = <<>>
       /\ SelectSeq(runs[r].seen, IsRunFinished) # <<>>
       /\ ToolCallsIn(runs[r].seen) # {}
  /\ SelectSeq(messages, IsToolEntry) # <<>>

----------------------------------------------------------------------------
(* Claims about runs whose read loops overlap *)

\* the variables a read loop accumulates in
Acc(st) ==
  [currentMessageId |-> st.currentMessageId,
   currentMessageContent |-> st.currentMessageContent,
   currentToolCall |-> st.currentToolCall]

\* C24: in both clients the accumulation state belongs to one invocation of
\* sendMessage: a chunk read by one run leaves the accumulation state of every
\* other run as it was, and what it does to its own accumulation state and to
\* the conversation is what its lines give from its own accumulation state,
\* also while the read loop of an earlier run is still active.
C24_StatePerRun ==
  [][\A r \in 1..Len(runs) :
       ReadStep(r) =>
         /\ \A q \in 1..Len(runs) : q # r => Acc(runs'[q]) = Acc(runs[q])
         /\ \A lines \in {ChunkLines(r)},
               own \in {[ReaderState(messages, isLoading, uuid) EXCEPT
                           !.currentMessageId = runs[r].currentMessageId,
                           !.currentMessageContent = runs[r].currentMessageContent,
                           !.currentToolCall = runs[r].currentToolCall]} :
              \A after \in {ProcessLines(app, own, lines)} :
                /\ Acc(runs'[r]) = Acc(after)
                /\ messages' = after.messages]_vars

\* two read loops are active, both have processed events, and their
\* accumulation states differ
C24_Witness ==
  /\ Len(runs) = 2
  /\ runs[1].pc = "reading" /\ runs[2].pc = "reading"
  /\ runs[1].seen # <<>> /\ runs[2].seen # <<>>
  /\ runs[1].currentMessageId # JNull
  /\ Acc(runs[1]) # Acc(runs[2])

----------------------------------------------------------------------------
(* Claims about what the interpreter shows for a node *)

\* the value is an object with a string as its component tag
WellFormed(x) ==
  Truthy(x) /\ TypeOf(x) = "object" /\ TypeOf(Get(x, "component")) = "string"

\* C25 (as claimed): for a specification that is no object (null, a string, a
\* number) or an object without a string component tag, UIComponent renders a
\* placeholder.
C25_InvalidSpecPlaceholder ==
  (view # NoView /\ ~WellFormed(spec)) => view.k = "placeholder"

\* the 17 tags the interpreter knows
KnownTags ==
  {"container", "card", "heading", "text", "button", "image", "list", "grid", "badge",
   "divider", "spacer", "metric", "progress", "link", "alert", "code", "table"}

\* a node with a tag (a string that is not empty) outside the known ones
HasUnknownTag(x) ==
  /\ WellFormed(x)
  /\ Truthy(Get(x, "component"))
  /\ Get(x, "component").v \notin {<<t>> : t \in KnownTags}

\* the placeholder for such a node: its tag and its JSON
UnknownView(x) ==
  [k |-> "placeholder", tag |-> "unknown", kids |-> <<>>,
   shown |-> <<Get(x, "component"), JStr(Stringify(x))>>]

RemoveAt(seq, i) == SubSeq(seq, 1, i - 1) \o SubSeq(seq, i + 1, Len(seq))

\* the node with other children
WithChildren(node, children) == JObj(SetKey(node.v, <<"children">>, JArr(children)))

\* a container, card or grid whose children are a list and whose view is an element
RendersChildren(x) ==
  /\ WellFormed(x)
  /\ Get(x, "component").v \in {<<"container">>, <<"card">>, <<"grid">>}
  /\ IsArray(Get(x, "children"))

RECURSIVE Views(_)
\* the views of a list of nodes, one for each, in order
Views(nodes) ==
  IF nodes = <<>> THEN <<>> ELSE <<UIComponent(Head(nodes))>> \o Views(Tail(nodes))

\* C27 (as claimed): a container, card or grid renders exactly those of its
\* children that are well-formed nodes (objects with a string component tag), in
\* their order, and nothing for any other entry.
C27_OnlyWellFormedChildren ==
  (view # NoView /\ RendersChildren(spec) /\ view.k = "element") =>
    view.kids = Views(SelectSeq(Get(spec, "children").v, WellFormed))

\* props.name of a node, props being {} when the node has none
Prop(x, name) == Get(Default(Get(x, "props"), JObj(<<>>)), name)

Tagged(x, c) == WellFormed(x) /\ Get(x, "component") = Str(c)

Missing(v) == v.k = "undef"

\* a string or number that is a key of the table
InTable(table, v) ==
  /\ v.k \in {"str", "num"}
  /\ \E i \in 1..Len(table) : table[i].key = ToStr(v)

TableEntry(table, v) == table[CHOOSE i \in 1..Len(table) : table[i].key = ToStr(v)].val

OutsideOneToSix(v) == v.k = "num" /\ v.v[1] \notin 1..6

LayoutTable ==
  <<P("vertical", Str("flex flex-col gap-4")),
    P("horizontal", Str("flex flex-row gap-4 items-center")),
    P("grid", Str("grid grid-cols-2 gap-4"))>>

\* C28: an element whose optional prop is missing shows the default (heading
\* level 2, grid columns 2, also for a number of columns outside 1..6, badge
\* gray, progress blue, alert info, container layout vertical), and one whose
\* prop is a key of the helper's table shows the table's entry for that key.
C28_DefaultsAndTableValues ==
  (view # NoView /\ view.k = "element") =>
    /\ Tagged(spec, "heading") =>
         \A level \in {Prop(spec, "level")} :
           /\ Missing(level) => view.shown = <<JNum(2), Str("text-3xl")>>
           /\ InTable(headingSizes, level) =>
                view.shown = <<level, TableEntry(headingSizes, level)>>
    /\ Tagged(spec, "grid") =>
         \A columns \in {Prop(spec, "columns")} :
           /\ (Missing(columns) \/ OutsideOneToSix(columns)) =>
                view.shown = <<Str("grid-cols-2")>>
           /\ InTable(colMap, columns) => view.shown = <<TableEntry(colMap, columns)>>
    /\ Tagged(spec, "badge") =>
         \A color \in {Prop(spec, "color")} :
           /\ Missing(color) => view.shown = <<Str("bg-gray-100 text-gray-800")>>
           /\ InTable(badgeColors, color) => view.shown = <<TableEntry(badgeColors, color)>>
    /\ Tagged(spec, "progress") =>
         \A color \in {Prop(spec, "color")} :
           /\ Missing(color) => view.shown = <<Str("bg-blue-600")>>
           /\ InTable(progressColors, color) =>
                view.shown = <<TableEntry(progressColors, color)>>
    /\ Tagged(spec, "alert") =>
         \A type \in {Prop(spec, "type")} :
           /\ Missing(type) =>
                view.shown = <<Str("bg-blue-50 border-blue-200 text-blue-800"), Str("i")>>
           /\ InTable(alertStyles, type) =>
                view.shown = <<TableEntry(alertStyles, type), TableEntry(alertIcons, type)>>
    /\ Tagged(spec, "container") =>
         \A layout \in {Get(spec, "layout")} :
           /\ Missing(layout) => view.shown = <<Str("flex flex-col gap-4")>>
           /\ InTable(LayoutTable, layout) => view.shown = <<TableEntry(LayoutTable, layout)>>

\* a grid whose number of columns is outside 1..6 is mounted with two columns
C28_Witness ==
  /\ Tagged(spec, "grid")
  /\ OutsideOneToSix(Prop(spec, "columns"))
  /\ view.k = "element"
  /\ view.shown = <<Str("grid-cols-2")>>

\* the strings listed in a table
TableValues(table) == {table[i].val : i \in 1..Len(table)}

\* C29 (as claimed): whatever level, columns, color, type or layout a
\* specification carries, what the helper functions return for the element is
\* one of the strings listed in the helper's table.
C29_HelpersReturnTableStrings ==
  (view # NoView /\ view.k = "element") =>
    /\ Tagged(spec, "heading") => view.shown[2] \in TableValues(headingSizes)
    /\ Tagged(spec, "grid") => view.shown[1] \in TableValues(colMap)
    /\ Tagged(spec, "badge") => view.shown[1] \in TableValues(badgeColors)
    /\ Tagged(spec, "progress") => view.shown[1] \in TableValues(progressColors)
    /\ Tagged(spec, "alert") =>
         /\ view.shown[1] \in TableValues(alertStyles)
         /\ view.shown[2] \in TableValues(alertIcons)
    /\ Tagged(spec, "container") => view.shown[1] \in TableValues(LayoutTable)

-----------------------------------------------------------------------------
(* Claims about the presentation of a tool call *)

InCatalog(name) == \E i \in 1..Len(tools) : name = Str(tools[i])

-----------------------------------------------------------------------------
(* Claims about a lost connection and about the loading flag *)

\* the request or the reading of the response of run r fails in this step
FailStep(r) ==
  /\ Len(runs') = Len(runs)
  /\ runs[r].pc \in {"fetch", "reading"}
  /\ runs'[r].pc = "failed"

TerminalSeen(run) == \E i \in 1..Len(run.seen) : IsTerminal(run.seen[i])

\* the entry by which a front end tells the user of the failure
IsErrorEntry(a, e) ==
  /\ e.role = "assistant"
  /\ e.content =
       (IF a = "agui" THEN Str("Sorry, there was an error processing your request.")
        ELSE Str("Error: Could not connect to the server. Please make sure the backend is running."))
  /\ a = "agui" => e.isError

\* C31: in both clients, when the request fails or the reading of the response
\* fails before a terminal event has been processed, the conversation grows by
\* exactly one entry, the error entry, and the loading flag is false afterwards.
C31_FailureSurfaced ==
  [][\A r \in 1..Len(runs) :
       (FailStep(r) /\ ~TerminalSeen(runs[r])) =>
         /\ Len(messages') = Len(messages) + 1
         /\ SubSeq(messages', 1, Len(messages)) = messages
         /\ IsErrorEntry(app, messages'[Len(messages')])
         /\ ~isLoading']_vars

\* the reading of a response failed after some text of it had been shown
C31_Witness ==
  \E r \in 1..Len(runs) :
    /\ runs[r].pc = "failed"
    /\ runs[r].pos > 0
    /\ runs[r].seen # <<>>
    /\ ~TerminalSeen(runs[r])
    /\ IsErrorEntry(app, messages[Len(messages)])
    /\ ~isLoading

-----------------------------------------------------------------------------
(* Claims about the codec *)

\* C32: whatever events of the vocabulary a response is made of, each frame is
\* one line that begins with 'data: ' and goes on with the JSON of the event,
\* followed by an empty line; the JSON behind the marker parses to the event,
\* and a front end that has read the whole response has decoded exactly the
\* events written, in their order.
C32_FrameRoundTrip ==
  /\ \A s \in Sessions :
       \A out \in {sess[s].out}, lines \in {SplitLines(sess[s].wire)} :
         /\ Len(lines) = 2 * Len(out) + 1
         /\ lines[Len(lines)] = <<>>
         /\ \A k \in 1..Len(out) :
              /\ lines[2 * k - 1] = DataPrefix \o Stringify(out[k])
              /\ lines[2 * k] = <<>>
              /\ \E parsed \in {JsonParse(Slice(lines[2 * k - 1], 6))} :
                   parsed.ok /\ parsed.val = out[k]
  /\ \A r \in 1..Len(runs) :
       (runs[r].pc \in {"reading", "done"}
          /\ runs[r].pos = Len(sess[runs[r].session].wire)) =>
         runs[r].seen = sess[runs[r].session].out

\* a front end has decoded a response of two events, the first with a line
\* feed in its text and the second with quotes and a backslash
C32_Witness ==
  \E r \in 1..Len(runs) :
    /\ runs[r].pc = "done"
    /\ Len(runs[r].seen) = 2
    /\ Get(runs[r].seen[1], "delta") = JStr(<<"a", NL, "b">>)
    /\ Get(runs[r].seen[2], "message") = JStr(<<"say ", Q, "hi", Q, " ", BS>>)

-----------------------------------------------------------------------------
(* Claims about the specification event in the A2UI client *)

\* the entries of a conversation that carry a specification
UiEntries(ms) == SelectSeq(ms, LAMBDA m : m.uiSpec # JUndef)

IsSpecEvent(e) == Get(e, "type") = Str("ui.spec")

\* the entry a ui.spec event stands for
SpecEntryOf(e) ==
  [id |-> Get(e, "specId"), role |-> "assistant", content |-> JUndef, toolName |-> JUndef,
   toolArgs |-> JUndef, uiSpec |-> Get(e, "specification"), isError |-> FALSE]

\* C33: in the A2UI client a chunk adds to the entries that carry a
\* specification one entry for each ui.spec event of the chunk, in their order,
\* with the event's specId as id and the event's specification unchanged,
\* whatever other events the run has received; the entries the conversation
\* had before keep the specification they carry.
C33_SpecEntryPerEvent ==
  [][\A r \in 1..Len(runs) :
       (ReadStep(r) /\ app = "a2ui") =>
         \A evs \in {SubSeq(runs'[r].seen, Len(runs[r].seen) + 1, Len(runs'[r].seen))} :
           \A specs \in {SelectSeq(evs, IsSpecEvent)} :
             /\ UiEntries(messages') =
                  UiEntries(messages) \o [k \in 1..Len(specs) |-> SpecEntryOf(specs[k])]
             /\ UiEntries(SubSeq(messages', 1, Len(messages))) = UiEntries(messages)]_vars

\* the A2UI client has received the same specification event twice and shows
\* two entries for it
C33_Witness ==
  /\ app = "a2ui"
  /\ \E r \in 1..Len(runs) : Len(SelectSeq(runs[r].seen, IsSpecEvent)) = 2
  /\ Len(UiEntries(messages)) = 2
  /\ UiEntries(messages)[1] = UiEntries(messages)[2]
  /\ UiEntries(messages)[1].uiSpec = CardSpec

-----------------------------------------------------------------------------
(* Claims about arguments that are no JSON in the A2UI handler *)

\* a render_custom_ui call whose arguments JSON.parse rejects
IsBrokenRenderCall(toolCall) ==
  /\ IsRenderCall(toolCall)
  /\ ~JsonParseValue(Get(Get(toolCall, "function"), "arguments")).ok

\* C34: when the completion of an A2UI run has a render_custom_ui call whose
\* arguments are no JSON and the response has been ended, the events written
\* hold exactly one run.error, the last event, and no run.finished, and there
\* are at most as many ui.spec events as render_custom_ui calls come before the
\* first such call: none for that call or for a later one.
C34_BrokenArgsEndInError ==
  \A s \in Sessions :
    \A calls \in {Get(sess[s].assistantMessage, "tool_calls")}, out \in {sess[s].out} :
      (/\ sess[s].handler = "a2ui"
       /\ sess[s].ended > 0
       /\ calls.k = "arr"
       /\ \E k \in 1..Len(calls.v) : IsBrokenRenderCall(calls.v[k])) =>
        \E k \in 1..Len(calls.v) :
          /\ IsBrokenRenderCall(calls.v[k])
          /\ \A j \in 1..(k - 1) : ~IsBrokenRenderCall(calls.v[j])
          /\ Len(SelectSeq(out, IsUiSpec)) <= Len(SelectSeq(SubSeq(calls.v, 1, k - 1), IsRenderCall))
          /\ Cardinality(Indices(out, RUN_ERROR)) = 1
          /\ IsType(Last(out), RUN_ERROR)
          /\ Indices(out, RUN_FINISHED) = {}

\* an A2UI run whose second render_custom_ui call has cut-off arguments has
\* ended after one ui.spec event and a run.error
C34_Witness ==
  \E s \in Sessions :
    \E calls \in {Get(sess[s].assistantMessage, "tool_calls")} :
      /\ sess[s].handler = "a2ui"
      /\ sess[s].ended > 0
      /\ calls.k = "arr"
      /\ Len(calls.v) = 2
      /\ ~IsBrokenRenderCall(calls.v[1])
      /\ IsBrokenRenderCall(calls.v[2])
      /\ Len(SelectSeq(sess[s].out, IsUiSpec)) = 1
      /\ IsType(Last(sess[s].out), RUN_ERROR)

-----------------------------------------------------------------------------
(* Claims about tool call events that carry another id *)

\* C35 (as claimed): in the AGUI client, after the last tool_call.start a run
\* has received, the tool call it opened is open until a tool_call.end with its
\* toolCallId arrives, and while it is open its argument string is the
\* concatenation of the deltas that carry its toolCallId: events with another
\* toolCallId leave it alone.
C35_OnlyOwnToolCallEvents ==
  \A r \in 1..Len(runs) :
    \A evs \in {runs[r].seen} :
      (app = "agui" /\ \E i \in 1..Len(evs) : IsToolStart(evs[i])) =>
        \A s0 \in {CHOOSE i \in 1..Len(evs) :
                     IsToolStart(evs[i]) /\ \A j \in (i + 1)..Len(evs) : ~IsToolStart(evs[j])} :
          \A id \in {Get(evs[s0], "toolCallId")}, after \in {SubSeq(evs, s0 + 1, Len(evs))} :
            /\ runs[r].currentToolCall.set =
                 ~\E i \in 1..Len(after) : IsToolEnd(after[i]) /\ Get(after[i], "toolCallId") = id
            /\ runs[r].currentToolCall.set =>
                 runs[r].currentToolCall.args =
                   ConcatDeltas(SelectSeq(after,
                     LAMBDA e : IsToolArgs(e) /\ Get(e, "toolCallId") = id))

-----------------------------------------------------------------------------
(* Claims about the loading flag after the end of a response *)

\* the response of some run has ended (the read loop was left) or has failed
SomeRunOver == \E r \in 1..Len(runs) : runs[r].pc \in {"done", "failed"}

\* C36 (as claimed): in both clients, once the response of a run has ended or
\* failed, the loading flag is false at some later time, whether or not a
\* run.finished or run.error frame has been processed.
C36_LoadingEventuallyCleared == SomeRunOver ~> ~isLoading

\* C37 (as claimed): in the A2UI client the loading flag is true whenever some
\* run has been sent whose response has neither come to a terminal event nor
\* ended or failed.
C37_InFlightMeansLoading ==
  app = "a2ui" =>
    \A r \in 1..Len(runs) :
      (runs[r].pc \in {"fetch", "reading"} /\ ~TerminalSeen(runs[r])) => isLoading

-----------------------------------------------------------------------------
(* Claims about the two handlers that announce tool calls *)

IdFields == {"threadId", "runId", "messageId", "toolCallId", "parentMessageId"}

\* the numbers of the generated ids that occur in the events
GeneratedIn(out) ==
  {n \in 1..uuid : \E i \in 1..Len(out) : \E f \in IdFields : Get(out[i], f) = Uuid(n)}

\* the events with every generated id replaced by its rank among those of the
\* run (the first id generated, the second, ...)
UpToIds(out) ==
  LET G == GeneratedIn(out)
      Rank(v) == IF \E n \in G : v = Uuid(n)
                 THEN JNum(Cardinality({m \in G : Uuid(m) # v /\ m < (CHOOSE n \in G : v = Uuid(n))}))
                 ELSE v
  IN [i \in 1..Len(out) |->
        JObj([j \in 1..Len(out[i].v) |->
                IF out[i].v[j].key[1] \in IdFields
                THEN [key |-> out[i].v[j].key, val |-> Rank(out[i].v[j].val)]
                ELSE out[i].v[j]])]

\* the provider did the same in both runs
SameOutcome(a, b) ==
  /\ a.settled = b.settled
  /\ a.response = b.response
  /\ a.settled = "rejected" => a.thrown = b.thrown

\* C38 (as claimed): when /api/agui and /api/agent have been given the same
\* request and the provider has done the same in both runs, both have written
\* the same events up to the generated ids and both have ended the response.
C38_HandlersAgree ==
  \A s \in AppSessions, t \in AppSessions :
    (/\ sess[s].handler = "agui" /\ sess[t].handler = "agent"
     /\ Over(sess[s]) /\ Over(sess[t])
     /\ sess[s].body = sess[t].body
     /\ SameOutcome(sess[s], sess[t])) =>
      /\ UpToIds(sess[s].out) = UpToIds(sess[t].out)
      /\ sess[s].ended > 0
      /\ sess[t].ended > 0

-----------------------------------------------------------------------------
(* Claims about sendMessage when there is nothing to send *)

\* the entries a step appends to the conversation
Appended == {i \in 1..Len(messages') : i > Len(messages)}

\* a step that is the work of sendMessage past its first statement: a request
\* is issued, a user entry is appended, or the input text is cleared while
\* the loading flag is raised
SendActs ==
  \/ Len(runs') > Len(runs)
  \/ \E i \in Appended : messages'[i].role = "user"
  \/ (~isLoading /\ isLoading')
  \/ (input # <<>> /\ input' = <<>> /\ isLoading')

\* C39: while the input text is blank (empty or white space only) or the
\* loading flag is up, no step issues a request, appends a user entry, raises
\* the loading flag or clears the input text: sendMessage returns at once.
C39_BlankOrLoadingSendsNothing ==
  [][(Trim(input) = <<>> \/ isLoading) => ~SendActs]_vars

\* a request has been sent and answered, and a single blank is in the input field
C39_Witness ==
  /\ Len(runs) = 1
  /\ runs[1].pc = "done"
  /\ ~isLoading
  /\ input = <<" ">>

====
